---- MODULE Spec2Model ----
(***************************************************************************)
(* Model of the prefer-optional-chain rule of typescript-eslint            *)
(* (src/unnamed/part_000): the operand classifier, the structural node     *)
(* comparator with its pairwise cache, the chain analyzer and the          *)
(* empty-object fallback detector.                                         *)
(*                                                                         *)
(* A syntax tree is a nested record.  Every node carries its `type`, its   *)
(* source `range` (token offsets) and the slot it occupies in its parent,  *)
(* so that two textually identical nodes at different places are two       *)
(* different values, as two objects are in the program.                    *)
(***************************************************************************)
EXTENDS Integers, Sequences, FiniteSets, TLC

\* ------------------------------------------------------------------ bounds

\* longest flattened run of operands of one analysed expression
MaxOperands == 3
\* number of top-level compareNodes calls of one comparator session
MaxCalls == 2
\* the trees that are analysed one after the other by one process
MaxTrees == 2

\* ------------------------------------------------------- syntax of the input

\* a slot that holds no node (null / undefined in the tree)
Absent == [type |-> "Absent"]
NoRange == <<0, 0>>
NoParent == [type |-> "None", key |-> "none"]

Id(name) ==
    [type |-> "Identifier", name |-> name, range |-> NoRange, parent |-> NoParent]
PrivateId(name) ==
    [type |-> "PrivateIdentifier", name |-> name, range |-> NoRange, parent |-> NoParent]
Lit(raw, value) ==
    [type |-> "Literal", raw |-> raw, value |-> value, range |-> NoRange, parent |-> NoParent]
This ==
    [type |-> "ThisExpression", range |-> NoRange, parent |-> NoParent]
Member(object, property, computed, optional) ==
    [type |-> "MemberExpression", object |-> object, property |-> property,
     computed |-> computed, optional |-> optional, range |-> NoRange, parent |-> NoParent]
Dot(object, name) == Member(object, Id(name), FALSE, FALSE)
Call(callee, typeArguments, arguments, optional) ==
    [type |-> "CallExpression", callee |-> callee, typeArguments |-> typeArguments,
     arguments |-> arguments, optional |-> optional, range |-> NoRange, parent |-> NoParent]
New(callee, arguments) ==
    [type |-> "NewExpression", callee |-> callee, typeArguments |-> Absent,
     arguments |-> arguments, range |-> NoRange, parent |-> NoParent]
Chain(expression) ==
    [type |-> "ChainExpression", expression |-> expression, range |-> NoRange, parent |-> NoParent]
NonNull(expression) ==
    [type |-> "TSNonNullExpression", expression |-> expression, range |-> NoRange, parent |-> NoParent]
Unary(operator, argument) ==
    [type |-> "UnaryExpression", operator |-> operator, argument |-> argument,
     range |-> NoRange, parent |-> NoParent]
Update(operator, argument) ==
    [type |-> "UpdateExpression", operator |-> operator, argument |-> argument,
     range |-> NoRange, parent |-> NoParent]
Yield(argument) ==
    [type |-> "YieldExpression", argument |-> argument, range |-> NoRange, parent |-> NoParent]
Binary(operator, left, right) ==
    [type |-> "BinaryExpression", operator |-> operator, left |-> left, right |-> right,
     range |-> NoRange, parent |-> NoParent]
Logical(operator, left, right) ==
    [type |-> "LogicalExpression", operator |-> operator, left |-> left, right |-> right,
     range |-> NoRange, parent |-> NoParent]
Assign(left, right) ==
    [type |-> "AssignmentExpression", operator |-> "=", left |-> left, right |-> right,
     range |-> NoRange, parent |-> NoParent]
Conditional(test, consequent, alternate) ==
    [type |-> "ConditionalExpression", test |-> test, consequent |-> consequent,
     alternate |-> alternate, range |-> NoRange, parent |-> NoParent]
Property(key, value) ==
    [type |-> "Property", key |-> key, value |-> value, range |-> NoRange, parent |-> NoParent]
Object(properties) ==
    [type |-> "ObjectExpression", properties |-> properties, range |-> NoRange, parent |-> NoParent]
Array(elements) ==
    [type |-> "ArrayExpression", elements |-> elements, range |-> NoRange, parent |-> NoParent]
Arrow(body) ==
    [type |-> "ArrowFunctionExpression", params |-> <<>>, body |-> body,
     range |-> NoRange, parent |-> NoParent]
Block ==
    [type |-> "BlockStatement", body |-> <<>>, range |-> NoRange, parent |-> NoParent]
Function ==
    [type |-> "FunctionExpression", params |-> <<>>, body |-> Block,
     range |-> NoRange, parent |-> NoParent]
ClassBody ==
    [type |-> "ClassBody", body |-> <<>>, range |-> NoRange, parent |-> NoParent]
Class ==
    [type |-> "ClassExpression", body |-> ClassBody, range |-> NoRange, parent |-> NoParent]
JSXFragment ==
    [type |-> "JSXFragment", children |-> <<>>, range |-> NoRange, parent |-> NoParent]
JSXElement(name) ==
    [type |-> "JSXElement", name |-> name, children |-> <<>>, range |-> NoRange, parent |-> NoParent]
TemplateElement(cooked) ==
    [type |-> "TemplateElement", cooked |-> cooked, range |-> NoRange, parent |-> NoParent]
Template(quasis, expressions) ==
    [type |-> "TemplateLiteral", quasis |-> quasis, expressions |-> expressions,
     range |-> NoRange, parent |-> NoParent]
TypeArgs(params) ==
    [type |-> "TSTypeParameterInstantiation", params |-> params,
     range |-> NoRange, parent |-> NoParent]
StringKeyword ==
    [type |-> "TSStringKeyword", range |-> NoRange, parent |-> NoParent]
NumberKeyword ==
    [type |-> "TSNumberKeyword", range |-> NoRange, parent |-> NoParent]
Meta ==
    [type |-> "MetaProperty", meta |-> Id("import"), property |-> Id("meta"),
     range |-> NoRange, parent |-> NoParent]
\* source parentheses: they occupy tokens and are no node of the tree
Paren(expression) ==
    [type |-> "Paren", expression |-> expression, range |-> NoRange, parent |-> NoParent]
Stmt(expression) ==
    [type |-> "ExpressionStatement", expression |-> expression,
     range |-> NoRange, parent |-> NoParent]

\* the child slots of each node type, in visiting order
visitorKeys(type) ==
    CASE type = "MemberExpression" -> <<"object", "property">>
      [] type = "CallExpression" -> <<"callee", "typeArguments", "arguments">>
      [] type = "NewExpression" -> <<"callee", "typeArguments", "arguments">>
      [] type \in {"ChainExpression", "TSNonNullExpression", "ExpressionStatement", "Paren"}
            -> <<"expression">>
      [] type \in {"UnaryExpression", "UpdateExpression", "YieldExpression"} -> <<"argument">>
      [] type \in {"BinaryExpression", "LogicalExpression", "AssignmentExpression"}
            -> <<"left", "right">>
      [] type = "ConditionalExpression" -> <<"test", "consequent", "alternate">>
      [] type = "Property" -> <<"key", "value">>
      [] type = "MetaProperty" -> <<"meta", "property">>
      [] type = "ObjectExpression" -> <<"properties">>
      [] type = "ArrayExpression" -> <<"elements">>
      [] type \in {"ArrowFunctionExpression", "FunctionExpression"} -> <<"params", "body">>
      [] type \in {"BlockStatement", "ClassBody", "ClassExpression"} -> <<"body">>
      [] type = "JSXFragment" -> <<"children">>
      [] type = "JSXElement" -> <<"children">>
      [] type = "TemplateLiteral" -> <<"quasis", "expressions">>
      [] type = "TSTemplateLiteralType" -> <<"quasis", "types">>
      [] type = "TSTypeParameterInstantiation" -> <<"params">>
      [] OTHER -> <<>>

\* the node types the visitor-key table knows
NodeTypes ==
    {"Identifier", "PrivateIdentifier", "Literal", "ThisExpression", "MemberExpression",
     "CallExpression", "NewExpression", "ChainExpression", "TSNonNullExpression",
     "UnaryExpression", "UpdateExpression", "YieldExpression", "BinaryExpression",
     "LogicalExpression", "AssignmentExpression", "ConditionalExpression", "Property",
     "MetaProperty", "ObjectExpression", "ArrayExpression", "ArrowFunctionExpression",
     "FunctionExpression", "BlockStatement", "ClassBody", "ClassExpression",
     "JSXFragment", "JSXElement", "TemplateElement", "TemplateLiteral",
     "TSTemplateLiteralType", "TSTypeParameterInstantiation", "TSStringKeyword",
     "TSNumberKeyword", "ExpressionStatement"}

\* the slots of a node that hold an ordered list of nodes
IsArraySlot(type, key) ==
    \/ key \in {"arguments", "properties", "elements", "params", "children",
                "quasis", "expressions"}
    \/ key = "body" /\ type \in {"BlockStatement", "ClassBody"}

\* ------------------------------------------------ source text and positions

Tok(t) == [i |-> "tok", v |-> t]
Slot(k) == [i |-> "slot", v |-> k]

\* the tokens of a node's source text, with the places of its child slots
Layout(n) ==
    CASE n.type = "Identifier" -> <<Tok(n.name)>>
      [] n.type = "PrivateIdentifier" -> <<Tok("#"), Tok(n.name)>>
      [] n.type = "Literal" -> <<Tok(n.raw)>>
      [] n.type = "ThisExpression" -> <<Tok("this")>>
      [] n.type = "MemberExpression" ->
            <<Slot("object")>>
            \o (IF n.optional THEN <<Tok("?.")>>
                ELSE IF n.computed THEN <<>> ELSE <<Tok(".")>>)
            \o (IF n.computed THEN <<Tok("["), Slot("property"), Tok("]")>>
                ELSE <<Slot("property")>>)
      [] n.type = "CallExpression" ->
            <<Slot("callee")>>
            \o (IF n.optional THEN <<Tok("?.")>> ELSE <<>>)
            \o <<Slot("typeArguments"), Tok("("), Slot("arguments"), Tok(")")>>
      [] n.type = "NewExpression" ->
            <<Tok("new"), Slot("callee"), Tok("("), Slot("arguments"), Tok(")")>>
      [] n.type = "ChainExpression" -> <<Slot("expression")>>
      [] n.type = "TSNonNullExpression" -> <<Slot("expression"), Tok("!")>>
      [] n.type \in {"UnaryExpression", "UpdateExpression"} ->
            <<Tok(n.operator), Slot("argument")>>
      [] n.type = "YieldExpression" -> <<Tok("yield"), Slot("argument")>>
      [] n.type \in {"BinaryExpression", "LogicalExpression", "AssignmentExpression"} ->
            <<Slot("left"), Tok(n.operator), Slot("right")>>
      [] n.type = "ConditionalExpression" ->
            <<Slot("test"), Tok("?"), Slot("consequent"), Tok(":"), Slot("alternate")>>
      [] n.type = "Property" -> <<Slot("key"), Tok(":"), Slot("value")>>
      [] n.type = "MetaProperty" -> <<Slot("meta"), Tok("."), Slot("property")>>
      [] n.type = "ObjectExpression" -> <<Tok("{"), Slot("properties"), Tok("}")>>
      [] n.type = "ArrayExpression" -> <<Tok("["), Slot("elements"), Tok("]")>>
      [] n.type = "ArrowFunctionExpression" ->
            <<Tok("("), Slot("params"), Tok(")"), Tok("=>"), Slot("body")>>
      [] n.type = "FunctionExpression" ->
            <<Tok("function"), Tok("("), Slot("params"), Tok(")"), Slot("body")>>
      [] n.type \in {"BlockStatement", "ClassBody"} -> <<Tok("{"), Slot("body"), Tok("}")>>
      [] n.type = "ClassExpression" -> <<Tok("class"), Slot("body")>>
      [] n.type = "JSXFragment" -> <<Tok("<>"), Slot("children"), Tok("</>")>>
      [] n.type = "JSXElement" -> <<Tok("<"), Tok(n.name), Slot("children"), Tok("/>")>>
      [] n.type = "TemplateElement" -> <<Tok(n.cooked)>>
      [] n.type = "TemplateLiteral" ->
            <<Tok("template"), Slot("quasis"), Slot("expressions"), Tok("end")>>
      [] n.type = "TSTypeParameterInstantiation" -> <<Tok("<"), Slot("params"), Tok(">")>>
      [] n.type = "TSStringKeyword" -> <<Tok("string")>>
      [] n.type = "TSNumberKeyword" -> <<Tok("number")>>
      [] n.type = "Paren" -> <<Tok("("), Slot("expression"), Tok(")")>>
      [] n.type = "ExpressionStatement" -> <<Slot("expression"), Tok(";")>>

RECURSIVE TokensOf(_)
RECURSIVE TokensOfItems(_, _, _)
RECURSIVE TokensOfList(_, _)

\* the source text of a piece of syntax, as a sequence of tokens
TokensOf(n) ==
    IF n = Absent THEN <<>> ELSE TokensOfItems(n, Layout(n), 1)

TokensOfItems(n, items, idx) ==
    IF idx > Len(items) THEN <<>>
    ELSE LET it == items[idx]
             here == IF it.i = "tok" THEN <<it.v>>
                     ELSE IF IsArraySlot(n.type, it.v) THEN TokensOfList(n[it.v], 1)
                     ELSE TokensOf(n[it.v])
         IN  here \o TokensOfItems(n, items, idx + 1)

TokensOfList(list, idx) ==
    IF idx > Len(list) THEN <<>>
    ELSE (IF idx > 1 THEN <<",">> ELSE <<>>)
         \o TokensOf(list[idx]) \o TokensOfList(list, idx + 1)

RECURSIVE LocateNode(_, _, _)
RECURSIVE LocateItems(_, _, _, _)
RECURSIVE LocateList(_, _, _, _)

\* the tree the parser gives of a piece of syntax that starts at token offset s:
\* every node gets its range and the slot it occupies in its parent, and
\* parentheses leave no node behind.  [n |-> the node, e |-> the end offset]
LocateNode(n, s, parent) ==
    IF n = Absent THEN [n |-> Absent, e |-> s]
    ELSE IF n.type = "Paren"
    THEN LET r == LocateNode(n.expression, s + 1, parent)
         IN  [n |-> r.n, e |-> r.e + 1]
    ELSE LET r == LocateItems(n, Layout(n), 1, s)
         IN  [n |-> [r.n EXCEPT !.range = <<s, r.e>>, !.parent = parent], e |-> r.e]

LocateItems(n, items, idx, cur) ==
    IF idx > Len(items) THEN [n |-> n, e |-> cur]
    ELSE LET it == items[idx]
             slot == [type |-> n.type, key |-> it.v]
         IN  IF it.i = "tok" THEN LocateItems(n, items, idx + 1, cur + 1)
             ELSE IF IsArraySlot(n.type, it.v)
             THEN LET r == LocateList(n[it.v], 1, cur, slot)
                  IN  LocateItems([n EXCEPT ![it.v] = r.l], items, idx + 1, r.e)
             ELSE LET r == LocateNode(n[it.v], cur, slot)
                  IN  LocateItems([n EXCEPT ![it.v] = r.n], items, idx + 1, r.e)

LocateList(list, idx, cur, parent) ==
    IF idx > Len(list) THEN [l |-> <<>>, e |-> cur]
    ELSE LET r == LocateNode(list[idx], IF idx > 1 THEN cur + 1 ELSE cur, parent)
             rest == LocateList(list, idx + 1, r.e, parent)
         IN  [l |-> <<r.n>> \o rest.l, e |-> rest.e]

\* the tree the rule is run on, for the statement `syntax`
Parse(syntax) == LocateNode(syntax, 0, NoParent).n

RECURSIVE SubNodes(_)
RECURSIVE SubNodesOfList(_, _)
RECURSIVE SubNodesOfKeys(_, _, _)

\* a node and all its descendants
SubNodes(n) ==
    IF n = Absent THEN {} ELSE {n} \cup SubNodesOfKeys(n, visitorKeys(n.type), 1)

SubNodesOfKeys(n, keys, idx) ==
    IF idx > Len(keys) THEN {}
    ELSE (IF IsArraySlot(n.type, keys[idx]) THEN SubNodesOfList(n[keys[idx]], 1)
          ELSE SubNodes(n[keys[idx]]))
         \cup SubNodesOfKeys(n, keys, idx + 1)

SubNodesOfList(list, idx) ==
    IF idx > Len(list) THEN {}
    ELSE SubNodes(list[idx]) \cup SubNodesOfList(list, idx + 1)

\* the direct children of a node
ChildrenOf(n) ==
    UNION { IF IsArraySlot(n.type, visitorKeys(n.type)[k])
            THEN { n[visitorKeys(n.type)[k]][j] : j \in DOMAIN n[visitorKeys(n.type)[k]] }
            ELSE { n[visitorKeys(n.type)[k]] } \ {Absent}
          : k \in DOMAIN visitorKeys(n.type) }

\* ------------------------------------------------- the structural comparator

\* NodeComparisonResult
Equal == "Equal"
Subset == "Subset"
Invalid == "Invalid"
\* the call did not return: its recursion exhausted the stack and threw
RangeError == "RangeError"

\* a comparison's outcome: its result and the cache it leaves behind
Ret(r, c) == [r |-> r, c |-> c]

isValidNode(x) == "type" \in DOMAIN x

isAnyChainExpression(node) == node.type = "ChainExpression"

isValidChainExpressionToLookThrough(node) ==
    /\ ~(node.parent.type = "MemberExpression" /\ node.parent.key = "object")
    /\ ~(node.parent.type = "CallExpression" /\ node.parent.key = "callee")
    /\ node.type = "ChainExpression"

\* the lookup at the head of compareNodes
cacheHasByPosition(c, nodeA, nodeB) ==
    \E pair \in DOMAIN c :
        /\ pair[1].type = nodeA.type /\ pair[1].range = nodeA.range
        /\ pair[2].type = nodeB.type /\ pair[2].range = nodeB.range

cacheHas(c, nodeA, nodeB) == <<nodeA, nodeB>> \in DOMAIN c
\* mapA.set(nodeB, result)
cacheSet(c, nodeA, nodeB, result) == (<<nodeA, nodeB>> :> result) @@ c

RECURSIVE compareNodes(_, _, _)
RECURSIVE compareNodesUncached(_, _, _)
RECURSIVE compareByVisiting(_, _, _)
RECURSIVE compareKeys(_, _, _, _, _)
RECURSIVE compareUnknownValues(_, _, _)
RECURSIVE compareArrays(_, _, _)
RECURSIVE compareElements(_, _, _, _)

\* the callback of arrayA.every(...) after the elements at idx were compared
\* with outcome `one`: a thrown error leaves, Equal goes on, the rest is false
everyAfter(arrayA, arrayB, idx, one) ==
    IF one.r = RangeError THEN one
    ELSE IF one.r = Equal THEN compareElements(arrayA, arrayB, idx + 1, one.c)
    ELSE Ret(Invalid, one.c)

\* arrayA.every(...) of compareArrays, from element idx on
compareElements(arrayA, arrayB, idx, c) ==
    IF idx > Len(arrayA) THEN Ret(Equal, c)
    ELSE IF arrayA[idx] = Absent \/ arrayB[idx] = Absent
    THEN IF arrayA[idx] = arrayB[idx] THEN compareElements(arrayA, arrayB, idx + 1, c)
         ELSE Ret(Invalid, c)
    ELSE everyAfter(arrayA, arrayB, idx, compareUnknownValues(arrayA[idx], arrayB[idx], c))

compareArrays(arrayA, arrayB, c) ==
    IF Len(arrayA) # Len(arrayB) THEN Ret(Invalid, c)
    ELSE compareElements(arrayA, arrayB, 1, c)

compareUnknownValues(valueA, valueB, c) ==
    IF valueA = Absent \/ valueB = Absent
    THEN IF valueA # valueB THEN Ret(Invalid, c) ELSE Ret(Equal, c)
    ELSE IF ~isValidNode(valueA) \/ ~isValidNode(valueB) THEN Ret(Invalid, c)
    ELSE compareNodes(valueA, valueB, c)

\* the loop of compareByVisiting after the key at idx compared as `result`
keysAfter(nodeA, nodeB, keys, idx, result) ==
    IF result.r = RangeError THEN result
    ELSE IF result.r # Equal THEN Ret(Invalid, result.c)
    ELSE compareKeys(nodeA, nodeB, keys, idx + 1, result.c)

\* the loop over the visitor keys of compareByVisiting, from key idx on
compareKeys(nodeA, nodeB, keys, idx, c) ==
    IF idx > Len(keys) THEN Ret(Equal, c)
    ELSE keysAfter(nodeA, nodeB, keys, idx,
                   IF IsArraySlot(nodeA.type, keys[idx])
                   THEN compareArrays(nodeA[keys[idx]], nodeB[keys[idx]], c)
                   ELSE compareUnknownValues(nodeA[keys[idx]], nodeB[keys[idx]], c))

compareByVisiting(nodeA, nodeB, c) ==
    IF nodeA.type \notin NodeTypes THEN Ret(Invalid, c)
    ELSE IF Len(visitorKeys(nodeA.type)) = 0 THEN Ret(Equal, c)
    ELSE compareKeys(nodeA, nodeB, visitorKeys(nodeA.type), 1, c)

\* `inner` is the outcome of comparing nodeA with the object or callee of nodeB
subsetIfNotInvalid(inner) ==
    IF inner.r = RangeError THEN inner
    ELSE IF inner.r # Invalid THEN Ret(Subset, inner.c)
    ELSE Ret(Invalid, inner.c)

\* the branch of compareNodesUncached for nodes of two different types
compareDifferentTypes(nodeA, nodeB, c) ==
    IF isValidChainExpressionToLookThrough(nodeA)
    THEN compareNodes(nodeA.expression, nodeB, c)
    ELSE IF isValidChainExpressionToLookThrough(nodeB)
    THEN compareNodes(nodeA, nodeB.expression, c)
    ELSE IF nodeA.type = "TSNonNullExpression"
    THEN compareNodes(nodeA.expression, nodeB, c)
    ELSE IF nodeB.type = "TSNonNullExpression"
    THEN compareNodes(nodeA, nodeB.expression, c)
    ELSE IF nodeA.type \in {"CallExpression", "Identifier", "MemberExpression", "MetaProperty"}
    THEN CASE nodeB.type = "MemberExpression" ->
                IF nodeB.property.type = "PrivateIdentifier" THEN Ret(Invalid, c)
                ELSE subsetIfNotInvalid(compareNodes(nodeA, nodeB.object, c))
           [] nodeB.type = "CallExpression" ->
                subsetIfNotInvalid(compareNodes(nodeA, nodeB.callee, c))
           [] OTHER -> Ret(Invalid, c)
    ELSE Ret(Invalid, c)

\* case CallExpression, from the end: after the type arguments were compared
callsAfterTypeArguments(typeParamCompare) ==
    IF typeParamCompare.r = RangeError THEN typeParamCompare
    ELSE IF typeParamCompare.r = Equal THEN Ret(Equal, typeParamCompare.c)
    ELSE Ret(Invalid, typeParamCompare.c)

\* ... after the argument lists were compared
callsAfterArguments(nodeA, nodeB, argumentCompare) ==
    IF argumentCompare.r = RangeError THEN argumentCompare
    ELSE IF argumentCompare.r # Equal THEN Ret(Invalid, argumentCompare.c)
    ELSE callsAfterTypeArguments(
            compareNodes(nodeA.typeArguments, nodeB.typeArguments, argumentCompare.c))

\* ... after the callees were compared
callsAfterCallee(nodeA, nodeB, calleeCompare) ==
    IF calleeCompare.r = RangeError THEN calleeCompare
    ELSE IF calleeCompare.r # Equal THEN Ret(Invalid, calleeCompare.c)
    ELSE callsAfterArguments(nodeA, nodeB,
            compareArrays(nodeA.arguments, nodeB.arguments, calleeCompare.c))

\* ... after nodeA was compared with the callee of nodeB
callsAfterSubset(nodeA, nodeB, aSubsetOfB) ==
    IF aSubsetOfB.r = RangeError THEN aSubsetOfB
    ELSE IF aSubsetOfB.r # Invalid THEN Ret(Subset, aSubsetOfB.c)
    ELSE callsAfterCallee(nodeA, nodeB,
            compareNodes(nodeA.callee, nodeB.callee, aSubsetOfB.c))

\* case CallExpression
compareCalls(nodeA, nodeB, c) ==
    callsAfterSubset(nodeA, nodeB, compareNodes(nodeA, nodeB.callee, c))

\* case MemberExpression, from the end: after the objects were compared
membersAfterObject(nodeA, nodeB, objectCompare) ==
    IF objectCompare.r = RangeError THEN objectCompare
    ELSE IF objectCompare.r # Equal THEN Ret(Invalid, objectCompare.c)
    ELSE compareNodes(nodeA.property, nodeB.property, objectCompare.c)

\* ... after nodeA was compared with the object of nodeB
membersAfterSubset(nodeA, nodeB, aSubsetOfB) ==
    IF aSubsetOfB.r = RangeError THEN aSubsetOfB
    ELSE IF aSubsetOfB.r # Invalid THEN Ret(Subset, aSubsetOfB.c)
    ELSE IF nodeA.computed # nodeB.computed THEN Ret(Invalid, aSubsetOfB.c)
    ELSE membersAfterObject(nodeA, nodeB,
            compareNodes(nodeA.object, nodeB.object, aSubsetOfB.c))

\* case MemberExpression
compareMembersOfPrivateFields(nodeA, nodeB, c) ==
    membersAfterSubset(nodeA, nodeB, compareNodes(nodeA, nodeB.object, c))

compareMembers(nodeA, nodeB, c) ==
    IF nodeB.property.type = "PrivateIdentifier" THEN Ret(Invalid, c)
    ELSE membersAfterSubset(nodeA, nodeB, compareNodes(nodeA, nodeB.object, c))

\* case TSTemplateLiteralType, TemplateLiteral
compareTemplates(nodeA, nodeB, c) ==
    LET areQuasisEqual ==
            /\ Len(nodeA.quasis) = Len(nodeB.quasis)
            /\ \A idx \in DOMAIN nodeA.quasis : nodeA.quasis[idx] = nodeB.quasis[idx]
    IN  IF ~areQuasisEqual THEN Ret(Invalid, c)
        \* compareNodes(nodeA, nodeBTemplate) is a call on the very pair that is
        \* being computed: unless the pair is cached it enters this case again,
        \* and again, until the stack is exhausted
        ELSE IF cacheHas(c, nodeA, nodeB) THEN Ret(c[<<nodeA, nodeB>>], c)
        ELSE Ret(RangeError, c)

\* the node types of which every evaluation makes a new instance
NoAllocationTypes == {}

AllocationTypes ==
    {"ArrayExpression", "ArrowFunctionExpression", "ClassExpression",
     "FunctionExpression", "JSXElement", "JSXFragment", "NewExpression",
     "ObjectExpression"}

\* the switch of compareNodesUncached for two nodes of the same type
compareSameType(nodeA, nodeB, c) ==
    CASE nodeA.type \in AllocationTypes -> Ret(Invalid, c)
      [] nodeA.type = "AssignmentExpression" -> Ret(Invalid, c)
      [] nodeA.type = "CallExpression" -> compareCalls(nodeA, nodeB, c)
      [] nodeA.type = "ChainExpression" -> compareNodes(nodeA, nodeB.expression, c)
      [] nodeA.type \in {"Identifier", "PrivateIdentifier"} ->
            IF nodeA.name = nodeB.name THEN Ret(Equal, c) ELSE Ret(Invalid, c)
      [] nodeA.type = "Literal" ->
            IF nodeA.raw = nodeB.raw /\ nodeA.value = nodeB.value
            THEN Ret(Equal, c) ELSE Ret(Invalid, c)
      [] nodeA.type = "MemberExpression" -> compareMembers(nodeA, nodeB, c)
      [] nodeA.type \in {"TSTemplateLiteralType", "TemplateLiteral"} ->
            compareTemplates(nodeA, nodeB, c)
      [] nodeA.type = "TemplateElement" ->
            IF nodeA.cooked = nodeB.cooked THEN Ret(Equal, c) ELSE Ret(Invalid, c)
      [] nodeA.type \in {"ArrayPattern", "ObjectPattern"} -> Ret(Invalid, c)
      [] nodeA.type = "UpdateExpression" -> Ret(Invalid, c)
      [] nodeA.type = "YieldExpression" -> Ret(Invalid, c)
      [] OTHER -> compareByVisiting(nodeA, nodeB, c)

compareNodesUncached(nodeA, nodeB, c) ==
    IF nodeA.type # nodeB.type THEN compareDifferentTypes(nodeA, nodeB, c)
    ELSE compareSameType(nodeA, nodeB, c)

\* the tail of compareNodes: the result is stored for the pair and returned
\* (a thrown error stores nothing)
memoizeBothOrders(nodeA, nodeB, result) ==
    IF result.r = RangeError THEN result
    ELSE Ret(result.r, cacheSet(cacheSet(result.c, nodeA, nodeB, result.r),
                                nodeB, nodeA, result.r))

memoize(nodeA, nodeB, result) ==
    IF result.r = RangeError THEN result
    ELSE Ret(result.r, cacheSet(result.c, nodeA, nodeB, result.r))

\* the memoized comparator; c is COMPARE_NODES_CACHE when the call is made
compareNodes(nodeA, nodeB, c) ==
    IF nodeA = Absent \/ nodeB = Absent
    THEN IF nodeA # nodeB THEN Ret(Invalid, c) ELSE Ret(Equal, c)
    ELSE IF cacheHas(c, nodeA, nodeB) THEN Ret(c[<<nodeA, nodeB>>], c)
    ELSE memoize(nodeA, nodeB, compareNodesUncached(nodeA, nodeB, c))

\* the empty cache
EmptyCache == [p \in {} |-> Invalid]

\* ------------------------------------------------------ the type service

\* the declarations the analysed programs are checked against: every access
\* path that starts at an identifier has the declared type of that identifier
\*   declare const f: false | F;   declare const s: string;
\*   declare const n: number | undefined;   every other name: T | undefined
\* and the names v... below, one for every category of the options
DeclaredType(name) ==
    CASE name = "f" -> {"false", "object"}
      [] name = "s" -> {"string"}
      [] name = "n" -> {"number", "undefined"}
      [] name = "vAny" -> {"any"}
      [] name = "vUnknown" -> {"unknown"}
      [] name = "vBigint" -> {"bigint", "undefined"}
      [] name = "vTrue" -> {"true", "null"}
      [] name = "vBoolean" -> {"true", "false"}
      [] name = "vNullString" -> {"null", "string"}
      [] name = "vObject" -> {"object"}
      [] name = "vSymbol" -> {"symbol", "undefined"}
      [] OTHER -> {"object", "undefined"}

RECURSIVE getTypeAtLocation(_)
\* unionTypeParts(parserServices.getTypeAtLocation(node)): the constituents
getTypeAtLocation(node) ==
    CASE node.type = "Identifier" -> DeclaredType(node.name)
      [] node.type = "MemberExpression" -> getTypeAtLocation(node.object)
      [] node.type = "CallExpression" -> getTypeAtLocation(node.callee)
      [] node.type \in {"ChainExpression", "TSNonNullExpression"} ->
            getTypeAtLocation(node.expression)
      [] node.type \in AllocationTypes -> {"object"}
      [] OTHER -> {"any"}

\* the ts.TypeFlags group a constituent belongs to
TypeFlagOf(t) ==
    CASE t = "null" -> "Null"
      [] t = "undefined" -> "Undefined"
      [] t = "object" -> "Object"
      [] t = "any" -> "Any"
      [] t = "unknown" -> "Unknown"
      [] t = "string" -> "StringLike"
      [] t = "number" -> "NumberLike"
      [] t \in {"true", "false"} -> "BooleanLike"
      [] t = "bigint" -> "BigIntLike"
      [] OTHER -> "Other"

defaultOptions ==
    [checkAny |-> TRUE, checkUnknown |-> TRUE, checkString |-> TRUE,
     checkNumber |-> TRUE, checkBoolean |-> TRUE, checkBigInt |-> TRUE,
     requireNullish |-> FALSE]

\* ---------------------------------------------------- the operand classifier

isValidFalseBooleanCheckTypeKeepingFalse(node, operator, checkType, opts) ==
    LET types == getTypeAtLocation(node)
        allowedFlags ==
            {"Null", "Undefined", "Object"}
            \cup (IF opts.checkAny THEN {"Any"} ELSE {})
            \cup (IF opts.checkUnknown THEN {"Unknown"} ELSE {})
            \cup (IF opts.checkString THEN {"StringLike"} ELSE {})
            \cup (IF opts.checkNumber THEN {"NumberLike"} ELSE {})
            \cup (IF opts.checkBoolean THEN {"BooleanLike"} ELSE {})
            \cup (IF opts.checkBigInt THEN {"BigIntLike"} ELSE {})
    IN  IF opts.requireNullish
        THEN \E t \in types : TypeFlagOf(t) \in {"Null", "Undefined"}
        ELSE \A t \in types : TypeFlagOf(t) \in allowedFlags

isValidFalseBooleanCheckTypeWithoutOptions(node, operator, checkType, opts) ==
    LET types == getTypeAtLocation(node)
        disallowFalseLiteral ==
            \/ operator = "||" /\ checkType = "false"
            \/ operator = "&&" /\ checkType = "true"
    IN  IF disallowFalseLiteral /\ (\E t \in types : t = "false") THEN FALSE
        ELSE \A t \in types : TypeFlagOf(t) # "Other"

isValidFalseBooleanCheckType(node, operator, checkType, opts) ==
    LET types == getTypeAtLocation(node)
        disallowFalseLiteral ==
            \/ operator = "||" /\ checkType = "false"
            \/ operator = "&&" /\ checkType = "true"
        nullishFlags == {"Null", "Undefined"}
        allowedFlags ==
            nullishFlags \cup {"Object"}
            \cup (IF opts.checkAny THEN {"Any"} ELSE {})
            \cup (IF opts.checkUnknown THEN {"Unknown"} ELSE {})
            \cup (IF opts.checkString THEN {"StringLike"} ELSE {})
            \cup (IF opts.checkNumber THEN {"NumberLike"} ELSE {})
            \cup (IF opts.checkBoolean THEN {"BooleanLike"} ELSE {})
            \cup (IF opts.checkBigInt THEN {"BigIntLike"} ELSE {})
    IN  IF disallowFalseLiteral /\ (\E t \in types : t = "false") THEN FALSE
        ELSE IF opts.requireNullish
        THEN \E t \in types : TypeFlagOf(t) \in nullishFlags
        ELSE \A t \in types : TypeFlagOf(t) \in allowedFlags

\* ComparisonValueType, or "none" for the null the function returns
getComparisonValueTypeOfLiterals(node) ==
    CASE node.type = "Literal" ->
            IF node.value = "null" /\ node.raw = "null" THEN "Null"
            ELSE IF node.value = "s:undefined" THEN "UndefinedStringLiteral"
            ELSE "none"
      [] OTHER -> "none"

getComparisonValueType(node) ==
    CASE node.type = "Literal" ->
            IF node.value = "null" /\ node.raw = "null" THEN "Null"
            ELSE IF node.value = "s:undefined" THEN "UndefinedStringLiteral"
            ELSE "none"
      [] node.type = "Identifier" ->
            IF node.name = "undefined" THEN "Undefined" ELSE "none"
      [] OTHER -> "none"

RECURSIVE flattenLoop(_, _, _, _)
\* the while loop of flattenLogicalOperands; the stack top is the last element
flattenLoop(stack, operands, seen, operator) ==
    IF Len(stack) = 0 THEN [operands |-> operands, seenLogicals |-> seen]
    ELSE LET current == stack[Len(stack)]
             rest == SubSeq(stack, 1, Len(stack) - 1)
         IN  IF current.type = "LogicalExpression" /\ current.operator = operator
             THEN flattenLoop(rest \o <<current.right, current.left>>, operands,
                              seen \cup {current}, operator)
             ELSE flattenLoop(rest, Append(operands, current), seen, operator)

flattenLogicalOperandsFromTheRight(node) ==
    flattenLoop(<<node.left, node.right>>, <<>>, {node}, node.operator)

flattenLogicalOperands(node) ==
    flattenLoop(<<node.right, node.left>>, <<>>, {node}, node.operator)

InvalidOperand == [type |-> "Invalid"]
ValidOperand(comparedName, comparisonType, node) ==
    [type |-> "Valid", comparedName |-> comparedName,
     comparisonType |-> comparisonType, node |-> node]

\* operand.operator.startsWith('!'), for the operators of a binary expression
startsWithBang(operator) == operator \in {"!=", "!=="}

\* case BinaryExpression of gatherLogicalOperands
classifyBinary(operand) ==
    LET comparedValueRight == getComparisonValueType(operand.right)
        comparedExpression ==
            IF comparedValueRight # "none" THEN operand.left ELSE operand.right
        comparedValue ==
            IF comparedValueRight # "none" THEN comparedValueRight
            ELSE getComparisonValueType(operand.left)
    IN  IF comparedValue = "UndefinedStringLiteral"
        THEN IF comparedExpression.type = "UnaryExpression"
                /\ comparedExpression.operator = "typeof"
             THEN ValidOperand(comparedExpression.argument,
                               IF startsWithBang(operand.operator)
                               THEN "NotStrictEqualUndefined"
                               ELSE "StrictEqualUndefined",
                               operand)
             ELSE InvalidOperand
        ELSE IF operand.operator \in {"!=", "=="}
        THEN IF comparedValue \in {"Null", "Undefined"}
             THEN ValidOperand(comparedExpression,
                               IF startsWithBang(operand.operator)
                               THEN "NotEqualNullOrUndefined"
                               ELSE "EqualNullOrUndefined",
                               operand)
             ELSE InvalidOperand
        ELSE IF operand.operator \in {"!==", "==="}
        THEN CASE comparedValue = "Null" ->
                    ValidOperand(comparedExpression,
                                 IF startsWithBang(operand.operator)
                                 THEN "NotStrictEqualNull" ELSE "StrictEqualNull",
                                 operand)
               [] comparedValue = "Undefined" ->
                    ValidOperand(comparedExpression,
                                 IF startsWithBang(operand.operator)
                                 THEN "NotStrictEqualUndefined"
                                 ELSE "StrictEqualUndefined",
                                 operand)
               [] OTHER -> InvalidOperand
        ELSE InvalidOperand

\* the body of the for loop of gatherLogicalOperands, for one operand of
\* the flattened run of a combinator with operator `operator`
classifyOperandTrustingLogicals(operand, operator, opts) ==
    CASE operand.type = "BinaryExpression" -> classifyBinary(operand)
      [] operand.type = "UnaryExpression" ->
            IF operand.operator = "!"
               /\ isValidFalseBooleanCheckType(operand.argument, operator, "false", opts)
            THEN ValidOperand(operand.argument, "NotBoolean", operand)
            ELSE InvalidOperand
      [] OTHER ->
            IF isValidFalseBooleanCheckType(operand, operator, "true", opts)
            THEN ValidOperand(operand, "Boolean", operand)
            ELSE InvalidOperand

classifyOperand(operand, operator, opts) ==
    CASE operand.type = "BinaryExpression" -> classifyBinary(operand)
      [] operand.type = "UnaryExpression" ->
            IF operand.operator = "!"
               /\ isValidFalseBooleanCheckType(operand.argument, operator, "false", opts)
            THEN ValidOperand(operand.argument, "NotBoolean", operand)
            ELSE InvalidOperand
      [] operand.type = "LogicalExpression" -> InvalidOperand
      [] OTHER ->
            IF isValidFalseBooleanCheckType(operand, operator, "true", opts)
            THEN ValidOperand(operand, "Boolean", operand)
            ELSE InvalidOperand

gatherLogicalOperands(node, opts) ==
    LET flat == flattenLogicalOperands(node)
    IN  [operands |-> [k \in DOMAIN flat.operands |->
                          classifyOperand(flat.operands[k], node.operator, opts)],
         seenLogicals |-> flat.seenLogicals]

\* --------------------------------------------------------- the chain analyzer

\* an analyzer's outcome: v is the validated operands, <<>> for null
Validated(v, c, threw) == [v |-> v, c |-> c, threw |-> threw]

\* whether operand pairs with nextOperand, the operand after it: nextOperand
\* has the partner comparison type and an Equal compared name (the names are
\* only compared when the type matches)
pairsWithNext(operand, index, chain, partner) ==
    index + 1 <= Len(chain) /\ chain[index + 1].comparisonType = partner

\* the analyzer's return once the names were compared with outcome cmp
pairOr(operand, nextOperand, lone, cmp) ==
    Validated(IF cmp.r = Equal THEN <<operand, nextOperand>> ELSE lone,
              cmp.c, cmp.r = RangeError)

\* the cases of the analyzers that look ahead; `lone` is what an operand
\* without its partner validates to
lookAhead(operand, index, chain, partner, lone, c) ==
    IF pairsWithNext(operand, index, chain, partner)
    THEN pairOr(operand, chain[index + 1], lone,
                compareNodes(operand.comparedName, chain[index + 1].comparedName, c))
    ELSE Validated(lone, c, FALSE)

analyzeAndChainOperand(operand, index, chain, c) ==
    CASE operand.comparisonType \in {"Boolean", "NotEqualNullOrUndefined"} ->
            Validated(<<operand>>, c, FALSE)
      [] operand.comparisonType = "NotStrictEqualNull" ->
            lookAhead(operand, index, chain, "NotStrictEqualUndefined", <<operand>>, c)
      [] operand.comparisonType = "NotStrictEqualUndefined" ->
            lookAhead(operand, index, chain, "NotStrictEqualNull", <<operand>>, c)
      [] OTHER -> Validated(<<>>, c, FALSE)

analyzeOrChainOperandKeepingLone(operand, index, chain, c) ==
    CASE operand.comparisonType \in {"NotBoolean", "EqualNullOrUndefined"} ->
            Validated(<<operand>>, c, FALSE)
      [] operand.comparisonType = "StrictEqualNull" ->
            lookAhead(operand, index, chain, "StrictEqualUndefined", <<operand>>, c)
      [] operand.comparisonType = "StrictEqualUndefined" ->
            lookAhead(operand, index, chain, "StrictEqualNull", <<operand>>, c)
      [] OTHER -> Validated(<<>>, c, FALSE)

analyzeOrChainOperand(operand, index, chain, c) ==
    CASE operand.comparisonType \in {"NotBoolean", "EqualNullOrUndefined"} ->
            Validated(<<operand>>, c, FALSE)
      [] operand.comparisonType = "StrictEqualNull" ->
            lookAhead(operand, index, chain, "StrictEqualUndefined", <<>>, c)
      [] operand.comparisonType = "StrictEqualUndefined" ->
            lookAhead(operand, index, chain, "StrictEqualNull", <<>>, c)
      [] OTHER -> Validated(<<>>, c, FALSE)

\* the analyzer analyzeChain selects for the operator
analyzeOperand(operator, operand, index, chain, c) ==
    IF operator = "&&" THEN analyzeAndChainOperand(operand, index, chain, c)
    ELSE analyzeOrChainOperand(operand, index, chain, c)

NoFix == [range |-> NoRange, text |-> <<>>]

\* the diagnostic of a closed sub-chain
chainReportOfLastOperand(sub) ==
    [messageId |-> "preferOptionalChain",
     start |-> sub[Len(sub)].node.range[1],
     end |-> sub[Len(sub)].node.range[2],
     fix |-> NoFix]

chainReport(sub) ==
    [messageId |-> "preferOptionalChain",
     start |-> sub[1].node.range[1],
     end |-> sub[Len(sub)].node.range[2],
     fix |-> NoFix]

\* maybeReportThenReset(newChainSeed): the reports and the sub-chain it leaves
maybeReportThenResetKeepingChain(sub, reported, newChainSeed) ==
    [reports |-> IF Len(sub) > 1 THEN Append(reported, chainReport(sub)) ELSE reported,
     subChain |-> sub \o newChainSeed]

maybeReportThenReset(sub, reported, newChainSeed) ==
    [reports |-> IF Len(sub) > 1 THEN Append(reported, chainReport(sub)) ELSE reported,
     subChain |-> newChainSeed]

\* ------------------------------------------- the empty-object fallback detector

\* the TypeScript syntax kind the tree maps an expression node to
tsKindOf(n) ==
    CASE n.type = "Identifier" -> "Identifier"
      [] n.type = "ThisExpression" -> "ThisKeyword"
      [] n.type = "CallExpression" -> "CallExpression"
      [] n.type = "MemberExpression" ->
            IF n.computed THEN "ElementAccessExpression" ELSE "PropertyAccessExpression"
      [] n.type = "ChainExpression" ->
            IF n.expression.type = "CallExpression" THEN "CallExpression"
            ELSE "PropertyAccessExpression"
      [] n.type = "ConditionalExpression" -> "ConditionalExpression"
      [] n.type \in {"LogicalExpression", "BinaryExpression", "AssignmentExpression"} ->
            "BinaryExpression"
      [] n.type = "UnaryExpression" ->
            IF n.operator = "typeof" THEN "TypeOfExpression" ELSE "PrefixUnaryExpression"
      [] n.type = "UpdateExpression" -> "PrefixUnaryExpression"
      [] n.type = "YieldExpression" -> "YieldExpression"
      [] n.type = "TSNonNullExpression" -> "NonNullExpression"
      [] n.type = "ObjectExpression" -> "ObjectLiteralExpression"
      [] n.type = "ArrayExpression" -> "ArrayLiteralExpression"
      [] n.type = "Literal" -> "StringLiteral"
      [] OTHER -> "Unknown"

\* util.OperatorPrecedence
PrecedenceYield == 2
PrecedenceConditional == 4
PrecedenceCoalesce == 4
PrecedenceLogicalOR == 5
PrecedenceLogicalAND == 6
PrecedenceUnary == 16
PrecedenceLeftHandSide == 18
PrecedenceMember == 19
PrecedencePrimary == 20
PrecedenceInvalid == -1

\* util.getOperatorPrecedence(nodeKind, operatorKind)
getOperatorPrecedence(nodeKind, operatorKind) ==
    CASE nodeKind = "YieldExpression" -> PrecedenceYield
      [] nodeKind = "ConditionalExpression" -> PrecedenceConditional
      [] nodeKind = "BinaryExpression" ->
            (CASE operatorKind = "??" -> PrecedenceCoalesce
               [] operatorKind = "||" -> PrecedenceLogicalOR
               [] operatorKind = "&&" -> PrecedenceLogicalAND
               [] OTHER -> PrecedenceInvalid)
      [] nodeKind \in {"NonNullExpression", "PrefixUnaryExpression", "TypeOfExpression"} ->
            PrecedenceUnary
      [] nodeKind = "CallExpression" -> PrecedenceLeftHandSide
      [] nodeKind \in {"PropertyAccessExpression", "ElementAccessExpression"} ->
            PrecedenceMember
      [] nodeKind \in {"ThisKeyword", "Identifier", "StringLiteral",
                       "ArrayLiteralExpression", "ObjectLiteralExpression"} ->
            PrecedencePrimary
      [] OTHER -> PrecedenceInvalid

\* the precedence test of the fix, for the combinator `node`
isLeftSideLowerPrecedence(node) ==
    getOperatorPrecedence(tsKindOf(node.left), node.operator) < PrecedenceLeftHandSide

\* sourceCode.getText(n): the slice of the source the range of n covers
getText(src, n) == SubSeq(src, n.range[1] + 1, n.range[2])

\* the suggestion's fix: the replacement text of the range of parentNode
fixNeverWrapping(src, node, parentNode) ==
    [range |-> parentNode.range,
     text |-> getText(src, node.left) \o <<"?.">> \o getText(src, parentNode.property)]

fix(src, node, parentNode) ==
    LET leftNodeText == getText(src, node.left)
        maybeWrappedLeftNode ==
            IF isLeftSideLowerPrecedence(node) THEN <<"(">> \o leftNodeText \o <<")">>
            ELSE leftNodeText
        propertyToBeOptionalText == getText(src, parentNode.property)
        maybeWrappedProperty ==
            IF parentNode.computed THEN <<"[">> \o propertyToBeOptionalText \o <<"]">>
            ELSE propertyToBeOptionalText
    IN  [range |-> parentNode.range,
         text |-> maybeWrappedLeftNode \o <<"?.">> \o maybeWrappedProperty]

\* the guard of the fallback listener: whether it goes on to report
fallbackMatches(node, parentNode) ==
    LET isRightNodeAnEmptyObjectLiteral ==
            /\ node.right.type = "ObjectExpression"
            /\ Len(node.right.properties) = 0
    IN  ~(\/ ~isRightNodeAnEmptyObjectLiteral
          \/ parentNode = Absent
          \/ parentNode.type # "MemberExpression"
          \/ parentNode.optional)

fallbackReport(src, node, parentNode) ==
    [messageId |-> "optionalChainSuggest",
     start |-> parentNode.range[1],
     end |-> parentNode.range[2],
     fix |-> fix(src, node, parentNode)]

\* ------------------------------------------------------ the analysed programs

A == Id("a")
AB == Dot(A, "b")
ABC == Dot(AB, "c")
Null == Lit("null", "null")
Undefined == Id("undefined")

\* the operands the longer runs are made of
ChainShapes ==
    {A, AB, ABC,
     Unary("!", A), Unary("!", AB),
     Binary("!==", A, Null), Binary("!==", A, Undefined),
     Binary("===", A, Null), Binary("===", A, Undefined)}

\* the operands the runs of two are made of: those, an operand that may be
\* false, and the loose comparisons with null
OperandShapes ==
    ChainShapes \cup {Id("f"), Binary("!=", A, Null), Binary("==", A, Null)}

\* the operand lists of the runs that are analysed
OperandLists ==
    [1..2 -> OperandShapes]
    \cup UNION { [1..n -> ChainShapes] : n \in 3..MaxOperands }

RECURSIVE LeftNested(_, _)
\* the tree of  o1 op o2 op ... on  without parentheses
LeftNested(operator, ops) ==
    IF Len(ops) = 1 THEN ops[1]
    ELSE Logical(operator, LeftNested(operator, SubSeq(ops, 1, Len(ops) - 1)),
                 ops[Len(ops)])

\* the left and right operands of the fallback candidates
FallbackLefts ==
    {Id("foo"), Call(Id("foo"), Absent, <<>>, FALSE),
     Paren(Conditional(A, Id("b"), Id("c"))),
     Paren(Logical("||", Unary("!", A), Unary("!", AB))),
     Paren(Logical("&&", A, AB))}
FallbackRights == {Object(<<>>), Object(<<Property(Id("x"), Id("y"))>>), Id("b")}

\* the places a fallback candidate x is put in
Wrap(w, x) ==
    CASE w = "member" -> Dot(Paren(x), "bar")
      [] w = "computed" -> Member(Paren(x), Id("bar"), TRUE, FALSE)
      [] w = "optional" -> Chain(Member(Paren(x), Id("bar"), FALSE, TRUE))
      [] w = "property" -> Member(A, x, TRUE, FALSE)
      [] w = "callee" -> Call(Paren(x), Absent, <<>>, FALSE)
      [] w = "none" -> x
Wrappers == {"member", "computed", "optional", "property", "callee", "none"}

\* ------------------------------------------------------------- the traversal

RECURSIVE LogicalsIn(_)
RECURSIVE LogicalsInKeys(_, _, _)
RECURSIVE LogicalsInList(_, _)

\* the LogicalExpression nodes under n in the order the traversal enters
\* them: a node before its children, the children in visitor-key order
LogicalsIn(n) ==
    IF n = Absent THEN <<>>
    ELSE (IF n.type = "LogicalExpression" THEN <<n>> ELSE <<>>)
         \o LogicalsInKeys(n, visitorKeys(n.type), 1)

LogicalsInKeys(n, keys, idx) ==
    IF idx > Len(keys) THEN <<>>
    ELSE (IF IsArraySlot(n.type, keys[idx]) THEN LogicalsInList(n[keys[idx]], 1)
          ELSE LogicalsIn(n[keys[idx]]))
         \o LogicalsInKeys(n, keys, idx + 1)

LogicalsInList(list, idx) ==
    IF idx > Len(list) THEN <<>>
    ELSE LogicalsIn(list[idx]) \o LogicalsInList(list, idx + 1)

\* the listeners whose selector matches the combinator n, in dispatch order
ListenersOf(n, fallbackBeforeChain) ==
    LET fallback == IF n.operator \in {"||", "??"}
                    THEN <<[listener |-> "fallback", node |-> n]>> ELSE <<>>
        chainL == IF n.operator # "??"
                  THEN <<[listener |-> "chain", node |-> n]>> ELSE <<>>
    IN  IF fallbackBeforeChain THEN fallback \o chainL ELSE chainL \o fallback

RECURSIVE AgendaOf(_, _, _)
\* the listener calls of one pass over the tree
AgendaOf(logicals, idx, fallbackBeforeChain) ==
    IF idx > Len(logicals) THEN <<>>
    ELSE ListenersOf(logicals[idx], fallbackBeforeChain)
         \o AgendaOf(logicals, idx + 1, fallbackBeforeChain)

\* node.parent: the node of `tree` that holds n in one of its slots
ParentNode(tree, n) ==
    IF \E q \in SubNodes(tree) : n \in ChildrenOf(q)
    THEN CHOOSE q \in SubNodes(tree) : n \in ChildrenOf(q)
    ELSE Absent

\* ------------------------------------------------------------------- state

VARIABLES
    program,        \* the tree that is analysed
    source,         \* its source text, a sequence of tokens
    options,        \* the rule's options
    fallbackFirst,  \* whether the fallback listener of a node runs before its chain listener
    agenda,         \* the listener calls still to be made
    seenLogicals,   \* create's set of combinators that are already handled
    reports,        \* what context.report was called with, in order
    cache,          \* COMPARE_NODES_CACHE
    pc,             \* "idle" | "split" | "analyze" | "crashed" | "compare"
    node,           \* the combinator the chain listener is handling
    operands,       \* its classified operands
    k,              \* the index of the operand the listener's loop is at
    currentChain,   \* the listener's run of Valid operands
    chain,          \* analyzeChain's argument
    i,              \* analyzeChain's loop index (1-based)
    subChain,       \* analyzeChain's open chain
    lastStep,       \* what the last step of analyzeChain did
    calls,          \* the compareNodes calls of a comparator session
    lastCompare,    \* the last of them: the two nodes and the result
    tree,           \* the number of the tree that is analysed, from 1 on
    inherited       \* COMPARE_NODES_CACHE as it was when the pass over the tree began

vars == <<program, source, options, fallbackFirst, agenda, seenLogicals, reports,
          cache, pc, node, operands, k, currentChain, chain, i, subChain, lastStep,
          calls, lastCompare, tree, inherited>>

NoStep == [kind |-> "none"]
NoCompare == [a |-> Absent, b |-> Absent, r |-> "none"]

\* the state create() leaves, for a program, a dispatch order and the options
StartWith(syntax, order, opts) ==
    /\ program = Parse(syntax)
    /\ source = TokensOf(syntax)
    /\ options = opts
    /\ fallbackFirst = order
    /\ agenda = AgendaOf(LogicalsIn(Parse(syntax)), 1, order)
    /\ seenLogicals = {}
    /\ reports = <<>>
    /\ cache = EmptyCache
    /\ pc = "idle"
    /\ node = Absent
    /\ operands = <<>>
    /\ k = 0
    /\ currentChain = <<>>
    /\ chain = <<>>
    /\ i = 0
    /\ subChain = <<>>
    /\ lastStep = NoStep
    /\ calls = 0
    /\ lastCompare = NoCompare
    /\ tree = 1
    /\ inherited = EmptyCache

\* the same under the default options
Start(syntax, order) == StartWith(syntax, order, defaultOptions)

\* the dispatch orders that differ for a program: the order matters only to
\* a node both listeners match, an || combinator
DispatchOrders(operator) == IF operator = "||" THEN BOOLEAN ELSE {TRUE}

InitRun ==
    \E operator \in {"&&", "||"},
       ops \in OperandLists :
        \E order \in DispatchOrders(operator) :
            Start(Stmt(LeftNested(operator, ops)), order)

InitFallback ==
    \E w \in Wrappers, operator \in {"||", "??"},
       left \in FallbackLefts, right \in FallbackRights :
        \E order \in DispatchOrders(operator) :
            Start(Stmt(Wrap(w, Logical(operator, left, right))), order)

Init == InitRun \/ InitFallback

listenerLocals == <<node, operands, k, currentChain, chain, i, subChain>>
comparatorSession == <<calls, lastCompare>>
input == <<program, source, options, fallbackFirst, tree, inherited>>

\* ---------------------------------------------------------------- listeners

\* 'LogicalExpression[operator="||"], LogicalExpression[operator="??"]':
\* the early return
FallbackReturn ==
    /\ pc = "idle" /\ Len(agenda) > 0 /\ agenda[1].listener = "fallback"
    /\ ~fallbackMatches(agenda[1].node, ParentNode(program, agenda[1].node))
    /\ agenda' = Tail(agenda)
    /\ lastStep' = NoStep
    /\ UNCHANGED <<input, seenLogicals, reports, cache, pc, listenerLocals,
                   comparatorSession>>

\* the same listener when it matches: it marks the node and reports
FallbackReport ==
    /\ pc = "idle" /\ Len(agenda) > 0 /\ agenda[1].listener = "fallback"
    /\ fallbackMatches(agenda[1].node, ParentNode(program, agenda[1].node))
    /\ seenLogicals' = seenLogicals \cup {agenda[1].node}
    /\ reports' = Append(reports,
                         fallbackReport(source, agenda[1].node,
                                        ParentNode(program, agenda[1].node)))
    /\ agenda' = Tail(agenda)
    /\ lastStep' = NoStep
    /\ UNCHANGED <<input, cache, pc, listenerLocals, comparatorSession>>

\* 'LogicalExpression[operator!="??"]' on a node that is in seenLogicals
ChainListenerSeen ==
    /\ pc = "idle" /\ Len(agenda) > 0 /\ agenda[1].listener = "chain"
    /\ agenda[1].node \in seenLogicals
    /\ agenda' = Tail(agenda)
    /\ lastStep' = NoStep
    /\ UNCHANGED <<input, seenLogicals, reports, cache, pc, listenerLocals,
                   comparatorSession>>

\* the same listener on a new node: it gathers the operands of the run
ChainListener ==
    /\ pc = "idle" /\ Len(agenda) > 0 /\ agenda[1].listener = "chain"
    /\ agenda[1].node \notin seenLogicals
    /\ LET gathered == gatherLogicalOperands(agenda[1].node, options)
       IN  /\ operands' = gathered.operands
           /\ seenLogicals' = seenLogicals \cup gathered.seenLogicals
    /\ node' = agenda[1].node
    /\ agenda' = Tail(agenda)
    /\ k' = 1
    /\ currentChain' = <<>>
    /\ pc' = "split"
    /\ lastStep' = NoStep
    /\ UNCHANGED <<input, reports, cache, chain, i, subChain, comparatorSession>>

\* the listener's loop at a Valid operand
PushOperand ==
    /\ pc = "split" /\ k <= Len(operands) /\ operands[k].type # "Invalid"
    /\ currentChain' = Append(currentChain, operands[k])
    /\ k' = k + 1
    /\ lastStep' = NoStep
    /\ UNCHANGED <<input, agenda, seenLogicals, reports, cache, pc, node, operands,
                   chain, i, subChain, comparatorSession>>

\* what the listener does when the analyzeChain call it is in returns
returnFromAnalyzeChain ==
    /\ currentChain' = <<>>
    /\ IF k <= Len(operands) THEN k' = k + 1 /\ pc' = "split"
       ELSE k' = k /\ pc' = "idle"

\* the listener calls analyzeChain: at an Invalid operand, and after the loop
CallAnalyzeChain ==
    /\ pc = "split"
    /\ k <= Len(operands) => operands[k].type = "Invalid"
    /\ IF Len(currentChain) <= 1 \/ node.operator \notin {"&&", "||"}
       THEN /\ returnFromAnalyzeChain
            /\ UNCHANGED <<chain, i, subChain>>
       ELSE /\ chain' = currentChain
            /\ i' = 1
            /\ subChain' = <<>>
            /\ pc' = "analyze"
            /\ UNCHANGED <<k, currentChain>>
    /\ lastStep' = NoStep
    /\ UNCHANGED <<input, agenda, seenLogicals, reports, cache, node, operands,
                   comparatorSession>>

\* the reports and the sub-chain the if-chain on comparisonResult leaves
afterComparisonPushingEqual(sub, reported, validatedOperands, comparisonResult) ==
    CASE comparisonResult \in {Subset, Equal} ->
            [reports |-> reported,
             subChain |-> Append(sub, validatedOperands[Len(validatedOperands)])]
      [] comparisonResult = Invalid ->
            maybeReportThenReset(sub, reported, validatedOperands)

afterComparison(sub, reported, validatedOperands, comparisonResult) ==
    CASE comparisonResult = Subset ->
            [reports |-> reported,
             subChain |-> Append(sub, validatedOperands[Len(validatedOperands)])]
      [] comparisonResult = Invalid ->
            maybeReportThenReset(sub, reported, validatedOperands)
      [] comparisonResult = Equal ->
            [reports |-> reported, subChain |-> sub]

\* the loop body from the comparison on: cmp is the outcome of comparing the
\* compared names of the last operand of the sub-chain and of currentOperand
extendOrClose(validatedOperands, cmp) ==
    /\ cache' = cmp.c
    /\ lastStep' = [kind |-> cmp.r]
    /\ IF cmp.r = RangeError
       THEN pc' = "crashed" /\ UNCHANGED <<reports, subChain, i>>
       ELSE /\ pc' = pc
            /\ i' = i + Len(validatedOperands)
            /\ subChain' = afterComparison(subChain, reports, validatedOperands, cmp.r).subChain
            /\ reports' = afterComparison(subChain, reports, validatedOperands, cmp.r).reports

\* the loop body after analyzeOperand returned `validated`
afterAnalyzeOperand(validated) ==
    IF validated.threw
    THEN /\ pc' = "crashed"
         /\ cache' = validated.c
         /\ lastStep' = [kind |-> "threw"]
         /\ UNCHANGED <<reports, subChain, i>>
    ELSE IF Len(validated.v) = 0
    THEN /\ reports' = maybeReportThenReset(subChain, reports, <<>>).reports
         /\ subChain' = maybeReportThenReset(subChain, reports, <<>>).subChain
         /\ i' = i + 1
         /\ cache' = validated.c
         /\ lastStep' = [kind |-> "rejected"]
         /\ pc' = pc
    ELSE IF Len(subChain) > 0
    THEN extendOrClose(validated.v,
                       compareNodes(subChain[Len(subChain)].comparedName,
                                    validated.v[Len(validated.v)].comparedName,
                                    validated.c))
    ELSE /\ subChain' = Append(subChain, validated.v[Len(validated.v)])
         /\ i' = i + Len(validated.v)
         /\ cache' = validated.c
         /\ lastStep' = [kind |-> "first"]
         /\ UNCHANGED <<reports, pc>>

\* one iteration of the for loop of analyzeChain
AnalyzeOperand ==
    /\ pc = "analyze" /\ i <= Len(chain)
    /\ afterAnalyzeOperand(analyzeOperand(node.operator, chain[i], i, chain, cache))
    /\ UNCHANGED <<input, agenda, seenLogicals, node, operands, k, currentChain, chain,
                   comparatorSession>>

\* the end of analyzeChain: "check the leftovers", and the return to the listener
AnalyzeLeftovers ==
    /\ pc = "analyze" /\ i > Len(chain)
    /\ LET after == maybeReportThenReset(subChain, reports, <<>>)
       IN  /\ reports' = after.reports
           /\ subChain' = after.subChain
    /\ returnFromAnalyzeChain
    /\ lastStep' = [kind |-> "leftovers"]
    /\ UNCHANGED <<input, agenda, seenLogicals, cache, node, operands, chain, i,
                   comparatorSession>>

Next ==
    \/ FallbackReturn
    \/ FallbackReport
    \/ ChainListenerSeen
    \/ ChainListener
    \/ PushOperand
    \/ CallAnalyzeChain
    \/ AnalyzeOperand
    \/ AnalyzeLeftovers

Spec == Init /\ [][Next]_vars

\* ------------------------------------------------- one tree after another

RECURSIVE Stamp(_, _)
RECURSIVE StampKeys(_, _, _, _)

\* the nodes of a later tree are other objects than the nodes of the trees
\* before it, also when the two files hold the same text: each carries the
\* number of its tree
Stamp(n, t) ==
    IF n = Absent THEN Absent
    ELSE [tree |-> t] @@ StampKeys(n, visitorKeys(n.type), 1, t)

StampKeys(n, keys, idx, t) ==
    IF idx > Len(keys) THEN n
    ELSE StampKeys([n EXCEPT ![keys[idx]] =
                        IF IsArraySlot(n.type, keys[idx])
                        THEN [j \in DOMAIN @ |-> Stamp(@[j], t)]
                        ELSE Stamp(@, t)],
                   keys, idx + 1, t)

\* the files that are linted after the first
LaterPrograms ==
    {Stmt(Logical("&&", A, AB)), Stmt(Logical("||", Unary("!", A), Unary("!", AB)))}

\* the first file of a process that lints several
InitPasses ==
    \/ InitFallback
    \/ \E operator \in {"&&", "||"}, ops \in [1..2 -> ChainShapes] :
        \E order \in DispatchOrders(operator) :
            Start(Stmt(LeftNested(operator, ops)), order)

\* what the module-level WeakMap holds when the next file begins: the trees
\* before it are garbage, and whether their entries are collected yet is up
\* to the runtime
CacheAfterCollection(collected) == IF collected THEN EmptyCache ELSE cache

\* the pass over a file is over and create() is called for the next file, in
\* the same process: the rule's module, and COMPARE_NODES_CACHE in it, stays
NextTree ==
    /\ pc = "idle" /\ Len(agenda) = 0
    /\ tree < MaxTrees
    /\ \E syntax \in LaterPrograms, collected \in BOOLEAN :
        /\ program' = Stamp(Parse(syntax), tree + 1)
        /\ source' = TokensOf(syntax)
        /\ agenda' = AgendaOf(LogicalsIn(Stamp(Parse(syntax), tree + 1)), 1, fallbackFirst)
        /\ cache' = CacheAfterCollection(collected)
        /\ inherited' = CacheAfterCollection(collected)
    /\ tree' = tree + 1
    /\ seenLogicals' = {}
    /\ reports' = <<>>
    /\ node' = Absent
    /\ operands' = <<>>
    /\ k' = 0
    /\ currentChain' = <<>>
    /\ chain' = <<>>
    /\ i' = 0
    /\ subChain' = <<>>
    /\ lastStep' = NoStep
    /\ UNCHANGED <<options, fallbackFirst, pc, comparatorSession>>

NextPasses ==
    \/ Next
    \/ NextTree

SpecPasses == InitPasses /\ [][NextPasses]_vars

\* ------------------------------------------- the classifier under every option

\* the names whose declared types cover the categories of the options
TypedNames ==
    {"a", "f", "s", "n", "vAny", "vUnknown", "vBigint", "vTrue", "vBoolean",
     "vNullString", "vObject", "vSymbol"}

\* every value the options object can have
OptionSets ==
    [checkAny : BOOLEAN, checkUnknown : BOOLEAN, checkString : BOOLEAN,
     checkNumber : BOOLEAN, checkBoolean : BOOLEAN, checkBigInt : BOOLEAN,
     requireNullish : BOOLEAN]

UndefinedString == Lit("'undefined'", "s:undefined")

\* the binary operands: every equality operator with a marker on either side,
\* the typeof forms, and the comparisons that are no nullish checks
BinaryShapes ==
    { Binary(op, A, m) : op \in {"==", "!=", "===", "!=="}, m \in {Null, Undefined} }
    \cup { Binary(op, m, A) : op \in {"==", "!=", "===", "!=="}, m \in {Null, Undefined} }
    \cup { Binary(op, Unary("typeof", A), UndefinedString) : op \in {"===", "!==", "==", "+"} }
    \cup { Binary("===", UndefinedString, Unary("typeof", A)),
           Binary("===", A, UndefinedString), Binary("===", A, Lit("1", "n:1")),
           Binary("==", A, Lit("1", "n:1")), Binary("+", A, Null), Binary("<", A, Undefined) }

\* the runs that hold a combinator with another operator
MixedPrograms ==
    {Logical("&&", Logical("&&", A, AB), Paren(Logical("||", ABC, Id("d")))),
     Logical("&&", Paren(Logical("||", A, AB)), ABC),
     Logical("||", Logical("||", Unary("!", A), Unary("!", AB)),
                   Logical("&&", ABC, Id("d"))),
     Logical("&&", Paren(Logical("??", A, AB)), ABC),
     Logical("??", Paren(Logical("&&", A, AB)), ABC),
     Logical("??", Logical("??", A, AB), ABC),
     Logical("||", Paren(Logical("??", Unary("!", A), Unary("!", AB))), Unary("!", ABC))}

\* a run of a typed operand and an access on it, each bare or negated, under
\* any options
InitTyped ==
    \E operator \in {"&&", "||"}, name \in TypedNames,
       negated \in BOOLEAN, negatedAccess \in BOOLEAN, opts \in OptionSets :
        StartWith(Stmt(Logical(operator, (IF negated THEN Unary("!", Id(name)) ELSE Id(name)),
                               (IF negatedAccess THEN Unary("!", Dot(Id(name), "a"))
                                ELSE Dot(Id(name), "a")))),
                  TRUE, opts)

\* a run of two binary operands
InitBinary ==
    \E operator \in {"&&", "||"}, x \in BinaryShapes, y \in BinaryShapes :
        Start(Stmt(Logical(operator, x, y)), TRUE)

\* a run with a combinator of another operator in it
InitMixed ==
    \E x \in MixedPrograms, order \in BOOLEAN : Start(Stmt(x), order)

InitClassify == InitTyped \/ InitBinary \/ InitMixed \/ InitFallback

SpecClassify == InitClassify /\ [][Next]_vars

\* ------------------------------------------------- runs of several chains

MaxRun == 5

\* the operands of the long runs: a name, an access on it, an operand that
\* may be false (Invalid), and a lone strict comparison
RunOperands(operator) ==
    IF operator = "&&"
    THEN {A, AB, Id("f"), Binary("!==", A, Null)}
    ELSE {Unary("!", A), Unary("!", AB), Unary("!", Id("f")), Binary("===", A, Null)}

\* a run long enough to hold two chains and an Invalid operand between them
InitLongRun ==
    \E operator \in {"&&", "||"}, n \in 4..MaxRun :
        \E ops \in [1..n -> RunOperands(operator)] :
            Start(Stmt(LeftNested(operator, ops)), TRUE)

SpecRuns == (InitLongRun \/ InitFallback) /\ [][Next]_vars

\* ------------------------------------------------------ a comparator session

\* the expressions whose nodes a comparator session compares
ComparedShapes ==
    {Object(<<>>), Array(<<>>), Class, Function, Arrow(Block),
     New(Id("C"), <<>>), JSXFragment, JSXElement("d"),
     Assign(A, Id("b")), Update("++", A), Yield(A),
     A, AB, Call(A, Absent, <<>>, FALSE), This, Null,
     Template(<<TemplateElement("x")>>, <<>>),
     Member(A, Id("b"), TRUE, FALSE), Member(A, Dot(Id("b"), "c"), TRUE, FALSE)}

\* the nodes of the program that are handed to compareNodes
ComparedNodes == {program.expression.left, program.expression.right}

\* a module whose cache is empty, and a program X && Y to take nodes from
InitCompare ==
    \E x \in ComparedShapes, y \in ComparedShapes :
        /\ program = Parse(Stmt(Logical("&&", x, y)))
        /\ source = TokensOf(Stmt(Logical("&&", x, y)))
        /\ options = defaultOptions
        /\ fallbackFirst = TRUE
        /\ agenda = <<>>
        /\ seenLogicals = {}
        /\ reports = <<>>
        /\ cache = EmptyCache
        /\ pc = "compare"
        /\ node = Absent
        /\ operands = <<>>
        /\ k = 0
        /\ currentChain = <<>>
        /\ chain = <<>>
        /\ i = 0
        /\ subChain = <<>>
        /\ lastStep = NoStep
        /\ calls = 0
        /\ lastCompare = NoCompare
        /\ tree = 1
        /\ inherited = EmptyCache

\* what a call compareNodes(nodeA, nodeB) with outcome `result` leaves
returnFromCompareNodes(nodeA, nodeB, result) ==
    /\ cache' = result.c
    /\ lastCompare' = [a |-> nodeA, b |-> nodeB, r |-> result.r]
    /\ calls' = calls + 1

\* one call of the exported comparator
CallCompareNodes ==
    /\ pc = "compare" /\ calls < MaxCalls
    /\ \E nodeA \in ComparedNodes, nodeB \in ComparedNodes :
          returnFromCompareNodes(nodeA, nodeB, compareNodes(nodeA, nodeB, cache))
    /\ UNCHANGED <<input, agenda, seenLogicals, reports, pc, listenerLocals, lastStep>>

NextCompare == CallCompareNodes

SpecCompare == InitCompare /\ [][NextCompare]_vars

\* ------------------------------------------------- runs of every nesting

MaxLeaves == 4

\* the leaves of the nested runs: two names and a combinator of the other
\* operator
NestedLeaves(operator) ==
    {A, AB,
     IF operator = "&&" THEN Paren(Logical("||", Unary("!", A), Unary("!", AB)))
     ELSE Paren(Logical("&&", A, AB))}

RECURSIVE Nestings(_, _)
\* every tree of combinators of one operator over the leaves ops, in order; a
\* combinator on the right stands in parentheses
Nestings(operator, ops) ==
    IF Len(ops) = 1 THEN {ops[1]}
    ELSE UNION { { Logical(operator, l,
                           IF j = Len(ops) - 1 THEN r ELSE Paren(r)) :
                       l \in Nestings(operator, SubSeq(ops, 1, j)),
                       r \in Nestings(operator, SubSeq(ops, j + 1, Len(ops))) }
                 : j \in 1..(Len(ops) - 1) }

InitNested ==
    \E operator \in {"&&", "||"}, n \in 2..MaxLeaves :
        \E ops \in [1..n -> NestedLeaves(operator)] :
            \E syntax \in Nestings(operator, ops) :
                Start(Stmt(syntax), TRUE)

SpecNested == (InitNested \/ InitFallback) /\ [][Next]_vars

\* ------------------------------------- the comparator on the nodes of a tree

\* calls with arguments, type arguments and the optional flag; accesses of a
\* private field; optional chains, in parentheses and not, and non-null
\* assertions; operators over the same operands; template literals
InnerShapes ==
    {A, AB, ABC,
     Call(Id("g"), Absent, <<>>, FALSE),
     Chain(Call(Id("g"), Absent, <<>>, TRUE)),
     Call(Id("g"), Absent, <<A>>, FALSE),
     Call(Id("g"), Absent, <<A, Id("b")>>, FALSE),
     Call(Id("g"), TypeArgs(<<StringKeyword>>), <<>>, FALSE),
     Call(Id("g"), TypeArgs(<<NumberKeyword>>), <<>>, FALSE),
     Call(Call(Id("g"), Absent, <<>>, FALSE), Absent, <<>>, FALSE),
     Call(Id("g"), Absent, <<Template(<<TemplateElement("x")>>, <<>>)>>, FALSE),
     Member(A, PrivateId("b"), FALSE, FALSE),
     Dot(Member(A, PrivateId("b"), FALSE, FALSE), "c"),
     Call(Member(A, PrivateId("b"), FALSE, FALSE), Absent, <<>>, FALSE),
     Chain(Member(A, Id("b"), FALSE, TRUE)),
     Dot(Paren(Chain(Member(A, Id("b"), FALSE, TRUE))), "c"),
     Call(Paren(Chain(Member(A, Id("b"), FALSE, TRUE))), Absent, <<>>, FALSE),
     NonNull(AB),
     Binary("+", A, Id("b")), Binary("-", A, Id("b")),
     Unary("!", A), Unary("-", A),
     Dot(Paren(Binary("+", A, Id("b"))), "c"),
     Dot(Dot(Paren(Binary("-", A, Id("b"))), "c"), "d"),
     Template(<<TemplateElement("x")>>, <<>>),
     Template(<<TemplateElement("z")>>, <<>>),
     Template(<<TemplateElement("x"), TemplateElement("y")>>, <<A>>),
     Template(<<TemplateElement("x"), TemplateElement("y")>>, <<AB>>)}

\* a module whose cache is empty, and a program X && Y
InitInner ==
    \E x \in InnerShapes, y \in InnerShapes :
        /\ program = Parse(Stmt(Logical("&&", x, y)))
        /\ source = TokensOf(Stmt(Logical("&&", x, y)))
        /\ options = defaultOptions
        /\ fallbackFirst = TRUE
        /\ agenda = <<>>
        /\ seenLogicals = {}
        /\ reports = <<>>
        /\ cache = EmptyCache
        /\ pc = "compare"
        /\ node = Absent
        /\ operands = <<>>
        /\ k = 0
        /\ currentChain = <<>>
        /\ chain = <<>>
        /\ i = 0
        /\ subChain = <<>>
        /\ lastStep = NoStep
        /\ calls = 0
        /\ lastCompare = NoCompare
        /\ tree = 1
        /\ inherited = EmptyCache

\* the nodes of the two operands
InnerNodes == SubNodes(program.expression.left) \cup SubNodes(program.expression.right)

\* one call of the comparator on two nodes of the tree, on the empty cache
CompareInnerNodes ==
    /\ pc = "compare" /\ calls = 0
    /\ \E nodeA \in InnerNodes, nodeB \in InnerNodes :
          returnFromCompareNodes(nodeA, nodeB, compareNodes(nodeA, nodeB, cache))
    /\ UNCHANGED <<input, agenda, seenLogicals, reports, pc, listenerLocals, lastStep>>

\* the rule run on the same programs
InitInnerRun ==
    \E x \in InnerShapes, y \in InnerShapes :
        Start(Stmt(Logical("&&", x, y)), TRUE)

NextInner ==
    \/ Next
    \/ CompareInnerNodes

SpecInner == (InitInner \/ InitInnerRun \/ InitFallback) /\ [][NextInner]_vars

\* -------------------------------------------------------------- properties

IsChainReport(r) == r.messageId = "preferOptionalChain"
IsFallbackReport(r) == r.messageId = "optionalChainSuggest"
ChainReports == SelectSeq(reports, IsChainReport)
FallbackReports == SelectSeq(reports, IsFallbackReport)

\* the pass over the program is over
Done == pc = "idle" /\ Len(agenda) = 0

\* the run the chain listener handled last is the whole program
WholeRun == node # Absent /\ node = program.expression

\* the comparator's answer on a fresh cache
compare(nodeA, nodeB) == compareNodes(nodeA, nodeB, EmptyCache).r

AllValid == \A j \in DOMAIN operands : operands[j].type = "Valid"

\* the two operands are the two halves of a strict null/undefined pair
StrictPair(first, second) ==
    /\ \/ {first.comparisonType, second.comparisonType}
            = {"NotStrictEqualNull", "NotStrictEqualUndefined"}
       \/ {first.comparisonType, second.comparisonType}
            = {"StrictEqualNull", "StrictEqualUndefined"}
    /\ first.comparisonType # second.comparisonType
    /\ compare(first.comparedName, second.comparedName) = Equal

\* an && run of two or more Boolean operands, each a Subset of the next
BooleanSubsetRun ==
    /\ WholeRun /\ node.operator = "&&"
    /\ Len(operands) >= 2
    /\ AllValid
    /\ \A j \in DOMAIN operands : operands[j].comparisonType = "Boolean"
    /\ \A j \in 1..(Len(operands) - 1) :
          compare(operands[j].comparedName, operands[j + 1].comparedName) = Subset

\* C1: an && run of n >= 2 Boolean operands with Subset between every two
\* consecutive compared names gets exactly one preferOptionalChain diagnostic,
\* from the start of the first operand to the end of the last
C1_OneDiagnosticOverTheRun ==
    (Done /\ BooleanSubsetRun) =>
        /\ Len(ChainReports) = 1
        /\ ChainReports[1].start = operands[1].node.range[1]
        /\ ChainReports[1].end = operands[Len(operands)].node.range[2]

C1_Witness ==
    /\ Done /\ BooleanSubsetRun
    /\ Len(operands) = 3
    /\ source = <<"a", "&&", "a", ".", "b", "&&", "a", ".", "b", ".", "c", ";">>
    /\ Len(reports) = 1
    /\ reports[1].start = 0 /\ reports[1].end = 11

\* an || run of a Valid NotBoolean operand and a member access on its base
NotThenMemberRun ==
    /\ WholeRun /\ node.operator = "||"
    /\ Len(operands) = 2
    /\ operands[1].type = "Valid" /\ operands[1].comparisonType = "NotBoolean"
    /\ node.right.type = "MemberExpression"
    /\ compare(operands[1].comparedName, node.right.object) = Equal

\* C2: the || run  !a || a.b  (a Valid NotBoolean operand, then a member access
\* on the same base) gets exactly one preferOptionalChain diagnostic
C2_NotThenMemberIsReported ==
    (Done /\ NotThenMemberRun) => Len(ChainReports) = 1

\* an && run of a strict pair on one name and an operand that extends the name
StrictPairThenSubsetRun ==
    /\ WholeRun /\ node.operator = "&&"
    /\ Len(operands) = 3
    /\ AllValid
    /\ StrictPair(operands[1], operands[2])
    /\ operands[3].comparisonType \in {"Boolean", "NotEqualNullOrUndefined"}
    /\ compare(operands[2].comparedName, operands[3].comparedName) = Subset

\* C3: for an && run that starts with a !== null / !== undefined pair on one
\* name and goes on with a Subset extension of the name, exactly one diagnostic
\* is emitted, from the start of the first operand of the pair to the end of
\* the last operand
C3_PairThenSubsetCoversTheRun ==
    (Done /\ StrictPairThenSubsetRun) =>
        /\ Len(ChainReports) = 1
        /\ ChainReports[1].start = operands[1].node.range[1]
        /\ ChainReports[1].end = operands[3].node.range[2]

\* the diagnostic covers the operands j and j+1 of the run and nothing else
CoversOnlyOperands(r, j) ==
    /\ r.start = operands[j].node.range[1]
    /\ r.end = operands[j + 1].node.range[2]

\* C4: a merged strict pair is one unit of chain length, so a chain that holds
\* nothing but one merged pair is never reported: no diagnostic covers just
\* the two operands of a pair, wherever in the run the pair stands
C4_LonePairIsNotReported ==
    \A idx \in DOMAIN ChainReports :
        \A j \in 1..(Len(operands) - 1) :
            (/\ operands[j].type = "Valid" /\ operands[j + 1].type = "Valid"
             /\ StrictPair(operands[j], operands[j + 1]))
            => ~CoversOnlyOperands(ChainReports[idx], j)

\* C5: a step of analyzeChain whose comparison is Equal leaves the open chain
\* and the reports as they are; and a run of two operands with Equal compared
\* names, like  a && a,  ends without a diagnostic
C5_EqualLeavesTheChain ==
    /\ [][lastStep'.kind = Equal => (subChain' = subChain /\ reports' = reports)]_vars
    /\ [](  (/\ Done /\ WholeRun /\ Len(operands) = 2 /\ AllValid
             /\ compare(operands[1].comparedName, operands[2].comparedName) = Equal)
          => reports = <<>>)

C5_Witness ==
    /\ lastStep.kind = Equal
    /\ source = <<"a", "&&", "a", ";">>
    /\ Len(subChain) = 1
    /\ reports = <<>>

\* C6: every two consecutive operands of the open chain compare Subset
C6_OpenChainIsASubsetLineage ==
    \A j \in 1..(Len(subChain) - 1) :
        compare(subChain[j].comparedName, subChain[j + 1].comparedName) = Subset

\* the || and ?? combinators of the program
Combinators ==
    {n \in SubNodes(program) :
        n.type = "LogicalExpression" /\ n.operator \in {"||", "??"}}

\* n is a combinator  x || {}  or  x ?? {}  that is the object of a
\* non-optional member access
IsFallbackOfAccess(n) ==
    /\ n.right.type = "ObjectExpression" /\ Len(n.right.properties) = 0
    /\ ParentNode(program, n) # Absent
    /\ ParentNode(program, n).type = "MemberExpression"
    /\ ~ParentNode(program, n).optional
    /\ ParentNode(program, n).object = n

\* C7: the fallback detector reports a combinator only when its right operand
\* is an empty object literal and its parent is a non-optional member access
\* whose object is the combinator; never for  a[b || {}]
C7_FallbackOnlyOnTheObjectOfAnAccess ==
    \A idx \in DOMAIN FallbackReports :
        \E n \in Combinators :
            /\ IsFallbackOfAccess(n)
            /\ FallbackReports[idx].start = ParentNode(program, n).range[1]
            /\ FallbackReports[idx].end = ParentNode(program, n).range[2]

\* the combinators the fallback listener matches
Matched == {n \in Combinators : fallbackMatches(n, ParentNode(program, n))}

\* the diagnostic runs from an operand of the run of n to a later one
CoversOperandsOf(r, n) ==
    \E first \in DOMAIN flattenLogicalOperands(n).operands,
       last \in DOMAIN flattenLogicalOperands(n).operands :
        /\ first < last
        /\ r.start = flattenLogicalOperands(n).operands[first].range[1]
        /\ r.end = flattenLogicalOperands(n).operands[last].range[2]

\* C8: no preferOptionalChain diagnostic is emitted for operands of the
\* same-operator run of a combinator the fallback detector matched
C8_MatchedRunIsNotChainReported ==
    \A n \in Matched :
        \A idx \in DOMAIN ChainReports : ~CoversOperandsOf(ChainReports[idx], n)

\* the text L?.P of the claim for the matched combinator n
ExpectedRewrite(n) ==
    (IF getOperatorPrecedence(tsKindOf(n.left), n.operator) < PrecedenceLeftHandSide
     THEN <<"(">> \o getText(source, n.left) \o <<")">>
     ELSE getText(source, n.left))
    \o <<"?.">>
    \o (IF ParentNode(program, n).computed
        THEN <<"[">> \o getText(source, ParentNode(program, n).property) \o <<"]">>
        ELSE getText(source, ParentNode(program, n).property))

\* C9: the fix of a fallback diagnostic replaces the range of the parent
\* member access by L?.P: L is the text of the left operand, in parentheses
\* iff its precedence is lower than LeftHandSide, and P is the text of the
\* property, in brackets iff the access is computed
C9_RewriteIsLeftOptionalProperty ==
    \A idx \in DOMAIN FallbackReports :
        \E n \in Matched :
            /\ FallbackReports[idx].fix.range = ParentNode(program, n).range
            /\ FallbackReports[idx].fix.text = ExpectedRewrite(n)

C9_Witness ==
    /\ Done
    /\ source = <<"(", "(", "a", "?", "b", ":", "c", ")", "||", "{", "}", ")",
                  ".", "bar", ";">>
    /\ Len(reports) = 1
    /\ reports[1].fix.text = <<"(", "a", "?", "b", ":", "c", ")", "?.", "bar">>
    /\ reports[1].fix.range = <<0, 14>>

\* the kinds of the claim: those that allocate, and the three with an effect
AlwaysInvalidKinds ==
    {"ArrayExpression", "ObjectExpression", "ClassExpression", "FunctionExpression",
     "ArrowFunctionExpression", "NewExpression", "JSXElement", "JSXFragment",
     "AssignmentExpression", "UpdateExpression", "YieldExpression"}

\* C10: compareNodes answers Invalid for two nodes of one allocating kind, and
\* for two AssignmentExpression, UpdateExpression or YieldExpression nodes,
\* also when the two are the same text; the cache holds nothing else for them
C10_SameAllocationKindIsInvalid ==
    /\ (/\ lastCompare.r # "none"
        /\ lastCompare.a.type = lastCompare.b.type
        /\ lastCompare.a.type \in AlwaysInvalidKinds) => lastCompare.r = Invalid
    /\ \A pair \in DOMAIN cache :
          (pair[1].type = pair[2].type /\ pair[1].type \in AlwaysInvalidKinds)
          => cache[pair] = Invalid

C10_Witness ==
    /\ lastCompare.r = Invalid
    /\ lastCompare.a.type = "ObjectExpression"
    /\ lastCompare.b.type = "ObjectExpression"
    /\ lastCompare.a # lastCompare.b
    /\ getText(source, lastCompare.a) = getText(source, lastCompare.b)

\* the nodes of the kinds that always compare Invalid are left out of what
\* reflexivity is asked of
IsSelfIdentical(n) == \A m \in SubNodes(n) : m.type \notin AlwaysInvalidKinds

\* C11: the comparison of a tree with itself is Equal
C11_CompareIsReflexive ==
    (/\ lastCompare.r # "none"
     /\ lastCompare.a = lastCompare.b
     /\ IsSelfIdentical(lastCompare.a)) => lastCompare.r = Equal

RECURSIVE Peels(_)
\* n and what is left of it when trailing accesses and calls are taken off
Peels(n) ==
    {n} \cup
    CASE n.type = "MemberExpression" -> Peels(n.object)
      [] n.type = "CallExpression" -> Peels(n.callee)
      [] n.type \in {"ChainExpression", "TSNonNullExpression"} -> Peels(n.expression)
      [] OTHER -> {}

\* C12: a comparison that answers Subset has a second node that, with some of
\* its trailing accesses and calls taken off, compares Equal with the first;
\* a[b] and a[b.c] do not compare Subset
C12_SubsetIsAPrefixOfTheChain ==
    lastCompare.r = Subset =>
        \E peeled \in Peels(lastCompare.b) : compare(lastCompare.a, peeled) = Equal

\* C13: whatever was compared before, a call of compareNodes answers what
\* compareNodesUncached answers for the pair, and the cache holds nothing else
C13_MemoizationIsTransparent ==
    /\ lastCompare.r # "none" =>
          lastCompare.r = compareNodesUncached(lastCompare.a, lastCompare.b, EmptyCache).r
    /\ \A pair \in DOMAIN cache :
          cache[pair] = compareNodesUncached(pair[1], pair[2], EmptyCache).r

C13_Witness ==
    /\ calls = 2
    /\ lastCompare.a # lastCompare.b
    /\ lastCompare.r = Invalid
    /\ cacheHas(cache, lastCompare.b, lastCompare.a)
    /\ cache[<<lastCompare.b, lastCompare.a>>] = Subset

Flat == flattenLogicalOperands(node).operands

\* C15: a chain holds only operands of one && or || run: a combinator with
\* another operator inside the run is classified Invalid, so no chain holds
\* it, and no ?? combinator is ever the root of a chain analysis
C15_MixedOperatorsAreNotMerged ==
    node # Absent =>
        /\ node.operator \in {"&&", "||"}
        /\ \A j \in DOMAIN operands :
              Flat[j].type = "LogicalExpression" => operands[j].type = "Invalid"
        /\ pc = "analyze" =>
              \A j \in DOMAIN chain :
                  /\ chain[j].node.type # "LogicalExpression"
                  /\ \E m \in DOMAIN Flat : chain[j].node = Flat[m]

C15_Witness ==
    /\ node # Absent /\ pc = "analyze"
    /\ node.operator = "&&"
    /\ Len(chain) = 2
    /\ \E j \in DOMAIN operands :
          /\ Flat[j].type = "LogicalExpression" /\ Flat[j].operator = "||"
          /\ operands[j].type = "Invalid"

\* the operand n stands where narrowing has taken `false` out of its type: a
\* bare operand of an && run, or a negated operand of an || run
IsBare(n) == n.type \notin {"BinaryExpression", "UnaryExpression", "LogicalExpression"}
IsNegation(n) == n.type = "UnaryExpression" /\ n.operator = "!"
Subject(n) == IF IsNegation(n) THEN n.argument ELSE n
ExcludesFalse(n) ==
    \/ node.operator = "&&" /\ IsBare(n)
    \/ node.operator = "||" /\ IsNegation(n)

\* C16: under any options, a bare operand of an && run and the argument of a
\* negated operand of an || run is Invalid when `false` is in its type; a run
\* of such an operand and one more operand gets no diagnostic
C16_FalseLiteralIsRejected ==
    node # Absent =>
        /\ \A j \in DOMAIN operands :
              (ExcludesFalse(Flat[j]) /\ "false" \in getTypeAtLocation(Subject(Flat[j])))
              => operands[j].type = "Invalid"
        /\ (/\ pc = "idle" /\ Len(agenda) = 0 /\ WholeRun /\ Len(operands) = 2
            /\ ExcludesFalse(Flat[1])
            /\ "false" \in getTypeAtLocation(Subject(Flat[1])))
           => reports = <<>>

C16_Witness ==
    /\ Done /\ WholeRun
    /\ options = defaultOptions
    /\ source = <<"!", "f", "||", "!", "f", ".", "a", ";">>
    /\ operands[1].type = "Invalid"
    /\ reports = <<>>

\* the constituent t is nullish, an object, or of a category that is enabled
AllowedConstituent(t, opts) ==
    \/ t \in {"null", "undefined", "object"}
    \/ t = "any" /\ opts.checkAny
    \/ t = "unknown" /\ opts.checkUnknown
    \/ t = "string" /\ opts.checkString
    \/ t = "number" /\ opts.checkNumber
    \/ t \in {"true", "false"} /\ opts.checkBoolean
    \/ t = "bigint" /\ opts.checkBigInt

\* C17: where `false` is not excluded, a bare or negated operand is Valid
\* only if, with requireNullish, its type has a null or undefined constituent
\* and, without it, every constituent is null, undefined, object or of an
\* enabled category; the default options enable all six and not requireNullish
C17_LooseBooleanAcceptance ==
    /\ node # Absent =>
          \A j \in DOMAIN operands :
              (/\ IsBare(Flat[j]) \/ IsNegation(Flat[j])
               /\ ~(ExcludesFalse(Flat[j])
                    /\ "false" \in getTypeAtLocation(Subject(Flat[j])))
               /\ operands[j].type = "Valid")
              => IF options.requireNullish
                 THEN getTypeAtLocation(Subject(Flat[j])) \cap {"null", "undefined"} # {}
                 ELSE \A t \in getTypeAtLocation(Subject(Flat[j])) :
                          AllowedConstituent(t, options)
    /\ defaultOptions.checkAny /\ defaultOptions.checkUnknown
    /\ defaultOptions.checkString /\ defaultOptions.checkNumber
    /\ defaultOptions.checkBoolean /\ defaultOptions.checkBigInt
    /\ ~defaultOptions.requireNullish

C17_Witness ==
    /\ Done /\ WholeRun
    /\ options.requireNullish /\ ~options.checkString
    /\ source = <<"vNullString", "&&", "vNullString", ".", "a", ";">>
    /\ AllValid
    /\ Len(reports) = 1

Text(n) == getText(source, n)

IsNullishMarker(n) ==
    \/ n.type = "Literal" /\ n.raw = "null"
    \/ n.type = "Identifier" /\ n.name = "undefined"
IsUndefinedString(n) == n.type = "Literal" /\ n.value = "s:undefined"
IsMarker(n) == IsNullishMarker(n) \/ IsUndefinedString(n)
EqualityOperators == {"==", "!=", "===", "!=="}

\* the kind of the claim for an operator and a marker
KindOf(operator, marker) ==
    CASE operator = "==" -> "EqualNullOrUndefined"
      [] operator = "!=" -> "NotEqualNullOrUndefined"
      [] operator = "===" ->
            IF marker.type = "Literal" THEN "StrictEqualNull" ELSE "StrictEqualUndefined"
      [] operator = "!==" ->
            IF marker.type = "Literal" THEN "NotStrictEqualNull"
            ELSE "NotStrictEqualUndefined"

\* p is  x op M  and q is  M op x
IsYodaOf(p, q) ==
    /\ p.type = "BinaryExpression" /\ q.type = "BinaryExpression"
    /\ p.operator = q.operator /\ p.operator \in EqualityOperators
    /\ IsNullishMarker(p.right) /\ ~IsMarker(p.left)
    /\ Text(q.left) = Text(p.right) /\ Text(q.right) = Text(p.left)

\* C18: x op M and M op x, for an equality operator and the marker null or
\* undefined, classify to Valid operands with the compared name x and the one
\* kind the operator and the marker give
C18_YodaOrderIsTolerated ==
    node # Absent =>
        \A j \in DOMAIN operands, m \in DOMAIN operands :
            IsYodaOf(Flat[j], Flat[m]) =>
                /\ operands[j].type = "Valid" /\ operands[m].type = "Valid"
                /\ operands[j].comparedName = Flat[j].left
                /\ operands[m].comparedName = Flat[m].right
                /\ operands[j].comparisonType = KindOf(Flat[j].operator, Flat[j].right)
                /\ operands[m].comparisonType = operands[j].comparisonType

C18_Witness ==
    /\ node # Absent
    /\ source = <<"a", "!==", "undefined", "&&", "undefined", "!==", "a", ";">>
    /\ IsYodaOf(Flat[1], Flat[2])
    /\ operands[1].comparisonType = "NotStrictEqualUndefined"
    /\ operands[2].comparisonType = "NotStrictEqualUndefined"
    /\ Text(operands[2].comparedName) = <<"a">>

IsTypeof(n) == n.type = "UnaryExpression" /\ n.operator = "typeof"

\* C19: a binary operand is Valid only with an equality operator and a
\* nullish marker on one side; typeof x === 'undefined' and its negation are
\* Valid with the compared name x, and the string 'undefined' against anything
\* but a typeof is Invalid
C19_OnlyNullishComparisonsAreValid ==
    node # Absent =>
        \A j \in DOMAIN operands :
            Flat[j].type = "BinaryExpression" =>
                /\ operands[j].type = "Valid" =>
                      /\ Flat[j].operator \in EqualityOperators
                      /\ IsMarker(Flat[j].left) \/ IsMarker(Flat[j].right)
                /\ (/\ Flat[j].operator \in {"===", "!=="}
                    /\ IsTypeof(Flat[j].left) /\ IsUndefinedString(Flat[j].right))
                   => /\ operands[j].type = "Valid"
                      /\ operands[j].comparedName = Flat[j].left.argument
                      /\ operands[j].comparisonType =
                            IF Flat[j].operator = "===" THEN "StrictEqualUndefined"
                            ELSE "NotStrictEqualUndefined"
                /\ (IsUndefinedString(Flat[j].right) /\ ~IsTypeof(Flat[j].left))
                   => operands[j].type = "Invalid"

\* the operand of the chain is one of two adjacent operands that make a pair
IsInAPair(operand) ==
    \E m \in 1..(Len(chain) - 1) :
        /\ operand \in {chain[m], chain[m + 1]}
        /\ StrictPair(chain[m], chain[m + 1])

\* C20: in an && run the open chain holds only Boolean operands,
\* NotEqualNullOrUndefined operands and operands of an adjacent
\* !== null / !== undefined pair on one name; a strict comparison without its
\* partner neither starts nor extends a chain
C20_OnlyUnitsOfAndRuns ==
    (pc = "analyze" /\ node.operator = "&&") =>
        \A j \in DOMAIN subChain :
            \/ subChain[j].comparisonType \in {"Boolean", "NotEqualNullOrUndefined"}
            \/ /\ subChain[j].comparisonType \in
                      {"NotStrictEqualNull", "NotStrictEqualUndefined"}
               /\ IsInAPair(subChain[j])

\* chain[j] is a === null or === undefined operand that the operand after it
\* does not complete to a pair on an Equal name
IsLoneStrictEqual(j) ==
    /\ chain[j].comparisonType \in {"StrictEqualNull", "StrictEqualUndefined"}
    /\ ~(j + 1 <= Len(chain) /\ StrictPair(chain[j], chain[j + 1]))

\* C21: when the loop of analyzeChain over an || run comes to a lone
\* === null or === undefined operand, the open chain is closed (and reported
\* if it holds two operands or more), the operand joins no chain, and the
\* chain after it is empty
C21_LoneStrictEqualIsRejected ==
    [][(/\ pc = "analyze" /\ i <= Len(chain)
        /\ node.operator = "||"
        /\ IsLoneStrictEqual(i))
       => /\ subChain' = <<>>
          /\ i' = i + 1
          /\ pc' = "analyze"
          /\ reports' =
                IF Len(subChain) > 1
                THEN Append(reports,
                            [messageId |-> "preferOptionalChain",
                             start |-> subChain[1].node.range[1],
                             end |-> subChain[Len(subChain)].node.range[2],
                             fix |-> NoFix])
                ELSE reports]_vars

C21_Witness ==
    /\ pc = "analyze" /\ node.operator = "||"
    /\ lastStep.kind = "rejected"
    /\ i = 4
    /\ chain[3].comparisonType = "StrictEqualNull"
    /\ subChain = <<>>
    /\ Len(reports) = 1
    /\ reports[1].end = chain[2].node.range[2]

\* the range of the diagnostic r lies in the range of the node n
ReportWithin(r, n) == n.range[1] <= r.start /\ r.end <= n.range[2]
\* the range of the node n lies in the range of the diagnostic r
NodeWithin(n, r) == r.start <= n.range[1] /\ n.range[2] <= r.end

\* C22: a diagnostic that analyzeChain emits for a run starts where or after
\* every earlier diagnostic of the run ends, so no operand of the run lies in
\* two diagnostics, and it holds no operand of the run that is Invalid
C22_DiagnosticsOfARunAreDisjoint ==
    [][(pc = "analyze" /\ reports' # reports)
       => /\ Len(reports') = Len(reports) + 1
          /\ SubSeq(reports', 1, Len(reports)) = reports
          /\ IsChainReport(reports'[Len(reports')])
          /\ ReportWithin(reports'[Len(reports')], node)
          /\ reports'[Len(reports')].start < reports'[Len(reports')].end
          /\ \A m \in DOMAIN reports :
                (IsChainReport(reports[m]) /\ ReportWithin(reports[m], node))
                => reports[m].end <= reports'[Len(reports')].start
          /\ \A j \in DOMAIN operands :
                NodeWithin(Flat[j], reports'[Len(reports')])
                => /\ operands[j].type = "Valid"
                   /\ \A m \in DOMAIN reports :
                         IsChainReport(reports[m]) => ~NodeWithin(Flat[j], reports[m])]_vars

\* a && a.b && f && a && a.b: two diagnostics around the Invalid operand f
C22_Witness ==
    /\ Done /\ WholeRun
    /\ Len(operands) = 5
    /\ operands[3].type = "Invalid"
    /\ Len(reports) = 2
    /\ IsChainReport(reports[1]) /\ IsChainReport(reports[2])
    /\ reports[1].end <= Flat[3].range[1]
    /\ Flat[3].range[2] <= reports[2].start

\* the two argument lists have one length and compare Equal element by element
ArgumentsAreEqual(argsA, argsB) ==
    /\ Len(argsA) = Len(argsB)
    /\ \A idx \in DOMAIN argsA : compare(argsA[idx], argsB[idx]) = Equal

\* both type-argument lists are absent, or both are there and compare Equal
TypeArgumentsAreEqual(typeArgsA, typeArgsB) ==
    \/ typeArgsA = Absent /\ typeArgsB = Absent
    \/ /\ typeArgsA # Absent /\ typeArgsB # Absent
       /\ compare(typeArgsA, typeArgsB) = Equal

\* the last comparison was of two calls of which the first is no prefix of
\* the callee of the second
ComparedTwoCalls ==
    /\ lastCompare.r # "none"
    /\ lastCompare.a.type = "CallExpression" /\ lastCompare.b.type = "CallExpression"
    /\ compare(lastCompare.a, lastCompare.b.callee) = Invalid

RECURSIVE Spine(_)
\* a node and the nodes under it along object, callee and wrapped expression
Spine(n) ==
    {n} \cup
    CASE n.type = "MemberExpression" -> Spine(n.object)
      [] n.type = "CallExpression" -> Spine(n.callee)
      [] n.type \in {"ChainExpression", "TSNonNullExpression"} -> Spine(n.expression)
      [] OTHER -> {}

IsPrivateAccess(n) ==
    n.type = "MemberExpression" /\ n.property.type = "PrivateIdentifier"

\* C24: a comparison whose right node is an access of a private field, or
\* has one on its object/callee spine, answers Invalid whatever the left node
\* is; and no operand with such a compared name is added to an open chain
C24_PrivateFieldAccessIsInvalid ==
    /\ lastCompare.r # "none" =>
          ((\E m \in Spine(lastCompare.b) : IsPrivateAccess(m))
           => lastCompare.r = Invalid)
    /\ pc = "analyze" =>
          \A j \in 2..Len(subChain) :
              \A m \in Spine(subChain[j].comparedName) : ~IsPrivateAccess(m)

\* a.#b && a.#b.c: both operands are Valid, the names compare Invalid, and
\* nothing is reported
C24_Witness ==
    /\ Done /\ WholeRun /\ AllValid
    /\ source = <<"a", ".", "#", "b", "&&", "a", ".", "#", "b", ".", "c", ";">>
    /\ cacheHas(cache, operands[1].comparedName, operands[2].comparedName)
    /\ cache[<<operands[1].comparedName, operands[2].comparedName>>] = Invalid
    /\ reports = <<>>

\* a chain wrapper that is the object of an access or the callee of a call
IsParenthesizedChain(n) ==
    /\ n.type = "ChainExpression"
    /\ \/ n.parent.type = "MemberExpression" /\ n.parent.key = "object"
       \/ n.parent.type = "CallExpression" /\ n.parent.key = "callee"
\* a wrapper the comparator is to look through
IsLookedThrough(n) ==
    \/ n.type = "ChainExpression" /\ ~IsParenthesizedChain(n)
    \/ n.type = "TSNonNullExpression"
IsWrapper(n) == n.type \in {"ChainExpression", "TSNonNullExpression"}

\* C25: between nodes of two kinds, a chain wrapper or a non-null assertion
\* is looked through and the comparison goes on with its expression; a chain
\* wrapper that is the object of an access or the callee of a call is not: it
\* compares Invalid with every node that is no wrapper, and an access or call
\* on it compares neither Equal nor Subset with a node that has no wrapper
C25_ParenthesizedChainIsNotLookedThrough ==
    /\ lastCompare.r # "none" =>
          ((\/ /\ \E m \in Spine(lastCompare.a) : IsParenthesizedChain(m)
               /\ \A m \in Spine(lastCompare.b) : ~IsWrapper(m)
            \/ /\ \E m \in Spine(lastCompare.b) : IsParenthesizedChain(m)
               /\ \A m \in Spine(lastCompare.a) : ~IsWrapper(m))
           => lastCompare.r \notin {Equal, Subset})
    /\ (lastCompare.r # "none" /\ lastCompare.a.type # lastCompare.b.type) =>
        /\ (IsLookedThrough(lastCompare.a) \/ IsLookedThrough(lastCompare.b))
           => \/ /\ IsLookedThrough(lastCompare.a)
                 /\ lastCompare.r = compare(lastCompare.a.expression, lastCompare.b)
              \/ /\ IsLookedThrough(lastCompare.b)
                 /\ lastCompare.r = compare(lastCompare.a, lastCompare.b.expression)
        /\ (IsParenthesizedChain(lastCompare.a) /\ ~IsWrapper(lastCompare.b))
           => lastCompare.r = Invalid
        /\ (IsParenthesizedChain(lastCompare.b) /\ ~IsWrapper(lastCompare.a))
           => lastCompare.r = Invalid

C25_Witness ==
    /\ lastCompare.r = Invalid
    /\ IsParenthesizedChain(lastCompare.a)
    /\ lastCompare.a.parent.type = "MemberExpression"
    /\ lastCompare.b.type = "MemberExpression"
    /\ lastCompare.b.property.name = "b"
    /\ compare(lastCompare.a.expression, lastCompare.b) = Equal

RECURSIVE Root(_)
\* the node an object/callee spine starts from
Root(n) ==
    CASE n.type = "MemberExpression" -> Root(n.object)
      [] n.type = "CallExpression" -> Root(n.callee)
      [] n.type \in {"ChainExpression", "TSNonNullExpression"} -> Root(n.expression)
      [] OTHER -> n

OperatorKinds == {"UnaryExpression", "BinaryExpression", "LogicalExpression"}

\* two expressions of one kind with different operators
DifferInOperator(m, n) ==
    /\ m.type = n.type /\ m.type \in OperatorKinds
    /\ m.operator # n.operator

\* C26: two nodes of one kind that the generic path compares are Equal only
\* if every child slot is Equal; two expressions with different operators
\* never compare Equal, and nodes whose spines start from two such
\* expressions compare neither Equal nor Subset
C26_EqualMeansTheSameExpression ==
    lastCompare.r # "none" =>
        /\ (/\ lastCompare.a.type = lastCompare.b.type
            /\ lastCompare.a.type \in OperatorKinds
            /\ lastCompare.r = Equal)
           => \A key \in {"left", "right", "argument"} \cap DOMAIN lastCompare.a :
                  compare(lastCompare.a[key], lastCompare.b[key]) = Equal
        /\ DifferInOperator(lastCompare.a, lastCompare.b) => lastCompare.r # Equal
        /\ DifferInOperator(Root(lastCompare.a), Root(lastCompare.b))
           => lastCompare.r \notin {Equal, Subset}

IsTemplate(n) == n.type \in {"TemplateLiteral", "TSTemplateLiteralType"}

\* the quasis of two templates have one length and the same cooked values
QuasisMatch(quasisA, quasisB) ==
    /\ Len(quasisA) = Len(quasisB)
    /\ \A idx \in DOMAIN quasisA : quasisA[idx].cooked = quasisB[idx].cooked

\* C27: two template literals compare Equal exactly if their quasis match one
\* by one in cooked value and their expressions are Equal one by one
C27_TemplatesCompareByQuasisAndExpressions ==
    (/\ lastCompare.r # "none"
     /\ IsTemplate(lastCompare.a) /\ lastCompare.a.type = lastCompare.b.type)
    => (lastCompare.r = Equal
        <=> /\ QuasisMatch(lastCompare.a.quasis, lastCompare.b.quasis)
            /\ ArgumentsAreEqual(lastCompare.a.expressions, lastCompare.b.expressions))

\* C28: every call of the comparator on two nodes of a tree returns, also on
\* a node and itself: no call ends by exhausting the stack
C28_CompareTerminates ==
    lastCompare.r # "none" => lastCompare.r \in {Equal, Subset, Invalid}

RECURSIVE LeavesOf(_, _)
\* the leaves of the run of combinators with `operator` that n is the root of
LeavesOf(n, operator) ==
    IF n.type = "LogicalExpression" /\ n.operator = operator
    THEN LeavesOf(n.left, operator) \cup LeavesOf(n.right, operator)
    ELSE {n}

RECURSIVE CombinatorsOf(_, _)
\* the combinators of that run
CombinatorsOf(n, operator) ==
    IF n.type = "LogicalExpression" /\ n.operator = operator
    THEN {n} \cup CombinatorsOf(n.left, operator) \cup CombinatorsOf(n.right, operator)
    ELSE {}

\* C29: when the chain listener takes a combinator, the combinator was not
\* seen before; its flattened operands are the leaves of its run, each once,
\* from left to right in the source, and each is classified; the root and
\* every nested combinator of the run are recorded as seen, and none of them
\* had been seen, so no combinator is flattened twice and no leaf (whose
\* parent is a combinator of the run) is classified in two runs
C29_FlatteningIsInOrderAndOnce ==
    [][(pc = "idle" /\ pc' = "split")
       => /\ node' \notin seenLogicals
          /\ node'.operator \in {"&&", "||"}
          /\ Len(operands') = Len(flattenLogicalOperands(node').operands)
          /\ { flattenLogicalOperands(node').operands[j] : j \in DOMAIN operands' }
                = LeavesOf(node', node'.operator)
          /\ Len(operands') = Cardinality(LeavesOf(node', node'.operator))
          /\ \A j \in 1..(Len(operands') - 1) :
                flattenLogicalOperands(node').operands[j].range[2]
                    <= flattenLogicalOperands(node').operands[j + 1].range[1]
          /\ \A j \in DOMAIN operands' :
                ParentNode(program, flattenLogicalOperands(node').operands[j])
                    \in CombinatorsOf(node', node'.operator)
          /\ CombinatorsOf(node', node'.operator) \cap seenLogicals = {}
          /\ seenLogicals' = seenLogicals \cup CombinatorsOf(node', node'.operator)]_vars

\* a op (b op (c op d)): four operands, three combinators seen
C29_Witness ==
    /\ pc = "split" /\ k = 1
    /\ node = program.expression
    /\ node.left.type # "LogicalExpression"
    /\ node.right.type = "LogicalExpression" /\ node.right.operator = node.operator
    /\ node.right.right.type = "LogicalExpression"
    /\ node.right.right.operator = node.operator
    /\ Len(operands) = 4
    /\ Cardinality(seenLogicals) = 3

====
